---- MODULE Spec2Model ----
(***************************************************************************)
(* A model of go-qcow2reader: the qcow2 image engine (cluster resolver,    *)
(* reader, extent mapper, backing composition) and the parallel sparse     *)
(* copier.                                                                 *)
(*                                                                         *)
(* Scaling.  Host and virtual offsets are counted in model bytes.  The     *)
(* 64-bit L1/L2 entries of the format are scaled to 8-bit entries that     *)
(* keep the layout of the fields:                                          *)
(*    bit 0      "reads as zero" flag of a standard descriptor             *)
(*    bit 1      reserved bits (bits 1..8 of the format)                   *)
(*    bits 2..5  host offset field (bits 9..55 of the format)              *)
(*    bit 6      compressed flag (bit 62 of the format)                    *)
(*    bit 7      copied flag (bit 63 of the format)                        *)
(* Cluster sizes are 2 and 4 model bytes (cluster_bits 1 and 2) and an L2  *)
(* entry takes L2EntrySize model bytes, so an L2 table holds 1 or 2        *)
(* entries.                                                                *)
(***************************************************************************)
EXTENDS Integers, Sequences, FiniteSets, TLC

\* Largest virtual size of an image of the model.
MaxSize == 4

\* Size of one L2 entry in model bytes (8 bytes in the format).
L2EntrySize == 2

\* The cluster_bits values of the model's images.
ClusterBitsSet == {1, 2}

NoImage == [type |-> "none"]

Min(a, b) == IF a < b THEN a ELSE b

RECURSIVE Pow2(_)
Pow2(n) == IF n = 0 THEN 1 ELSE 2 * Pow2(n - 1)

Zeros(n) == [i \in 1..n |-> 0]

(***************************************************************************)
(* Errors.  "EOF" is io.EOF itself; "wrapped EOF" is an error made by      *)
(* fmt.Errorf("...: %w", io.EOF): errors.Is(err, io.EOF) holds of both.    *)
(***************************************************************************)
IsEOF(err) == err \in {"EOF", "wrapped EOF"}

Wrap(err) == IF err = "EOF" THEN "wrapped EOF" ELSE err

(***************************************************************************)
(* Bit-packed descriptor decoders.                                         *)
(***************************************************************************)
\* uint64(x) & 0x00fffffffffffe00
l2Offset(x) == ((x \div 4) % 16) * 4

\* uint64(x) & 0x3fffffffffffffff
clusterDescriptor(x) == x % 64

\* (x>>62)&0b1 == 0b1
compressed(x) == (x \div 64) % 2 = 1

\* desc&0b1 == 0b1
allZero(desc) == desc % 2 = 1

\* uint64(desc) & 0x00fffffffffffe00
hostClusterOffset(desc) == ((desc \div 4) % 16) * 4

\* 62 - (clusterBits - 8)
compressedX(clusterBits) == 6 - (clusterBits - 1)

compressedHostClusterOffset(desc, clusterBits) == desc % Pow2(compressedX(clusterBits))

additionalSectors(desc, clusterBits) == desc \div Pow2(compressedX(clusterBits))

(***************************************************************************)
(* The backing store of an image.  The header sits at host offset 0; the   *)
(* L2 table of L1 entry k sits at host offset 4*k; the data of virtual     *)
(* cluster i sits at host offset DataBase + 4*i.  Bytes of the store are   *)
(* non-zero and differ by layer (tag) and by offset, except the bytes of   *)
(* the host clusters in zeroHosts, which are zero data.                    *)
(***************************************************************************)
RaByte(img, o) == IF o \in img.zeroHosts THEN 0 ELSE img.tag * 100 + o + 1

\* The bytes a decoder produces for the compressed cluster stored at host.
CompByte(img, host, j) == img.tag * 100 + 50 + host + j

RawByte(img, o) == img.tag * 100 + 70 + o

(***************************************************************************)
(* Images.  A qcow2 image is the state Open leaves behind: the header      *)
(* fields, the L1 table, the store (its L2 tables and data), the cached    *)
(* readability error and the backing image.  A cluster kind names the L2   *)
(* entry an image is built with:                                           *)
(*    "U"  never written (entry 0)                                         *)
(*    "Z"  zero cluster (bit 0 set, no host cluster)                       *)
(*    "S"  standard cluster with non-zero data                             *)
(*    "S0" standard cluster whose data is all zeros                        *)
(*    "C"  compressed cluster                                              *)
(*    "B"  standard descriptor with reserved bits only (host offset 0)     *)
(* The fields kinds and hostOf record how the image was built; no          *)
(* operation of the reader looks at them.                                  *)
(***************************************************************************)
EntryOf(kind, host) ==
    CASE kind = "U" -> 0
      [] kind = "Z" -> 1
      [] kind = "S" -> host + 128
      [] kind = "S0" -> host + 128
      [] kind = "C" -> host + 64
      [] kind = "B" -> 2 + 128

NumClusters(size, clusterSize) == (size + clusterSize - 1) \div clusterSize

MkQcow2(tag, clusterBits, size, kinds, backing, unreadable) ==
    LET clusterSize == Pow2(clusterBits)
        l2Entries == clusterSize \div L2EntrySize
        n == Len(kinds)
        nL1 == (n + l2Entries - 1) \div l2Entries
        dataBase == 4 * (nL1 + 1)
        host(i) == dataBase + 4 * i
        kindAt(i) == IF i < n THEN kinds[i + 1] ELSE "U"
        tableUnused(k) == \A j \in 0..(l2Entries - 1) : kindAt((k - 1) * l2Entries + j) = "U"
    IN  [type |-> "qcow2",
         tag |-> tag,
         size |-> size,
         clusterBits |-> clusterBits,
         clusterSize |-> clusterSize,
         l2Entries |-> l2Entries,
         l1Table |-> [k \in 1..nL1 |-> IF tableUnused(k) THEN 0 ELSE 4 * k + 128],
         l2Store |-> [k \in 1..nL1 |->
                        [j \in 1..l2Entries |->
                            LET i == (k - 1) * l2Entries + (j - 1)
                            IN  EntryOf(kindAt(i), host(i))]],
         zeroHosts |-> UNION {{host(i) + j : j \in 0..(clusterSize - 1)} :
                                i \in {c \in 0..(n - 1) : kinds[c + 1] = "S0"}},
         errUnreadable |-> unreadable,
         backingImage |-> backing,
         kinds |-> kinds,
         hostOf |-> [i \in 1..n |-> host(i - 1)]]

MkRaw(tag, size) == [type |-> "raw", tag |-> tag, size |-> size]

MkStub(t) == [type |-> "stub", t |-> t]

\* Sequences of the given length over a set of kinds.
KindSeqs(n, kinds) == [1..n -> kinds]

(***************************************************************************)
(* readL2Table: the table the store holds at the given host offset.        *)
(***************************************************************************)
readL2Table(img, offset, env) ==
    IF offset = 0 THEN [err |-> "invalid L2 table offset: 0", table |-> <<>>]
    ELSE IF env = "ioerr" THEN [err |-> "EIO", table |-> <<>>]
    ELSE IF (offset \div 4) \in DOMAIN img.l2Store
         THEN [err |-> "nil", table |-> img.l2Store[offset \div 4]]
         ELSE [err |-> "wrapped EOF", table |-> <<>>]

\* The L2 cache is read-through; a hit returns the table a miss has read.
getL2Table(img, l1Entry, env) == readL2Table(img, l2Offset(l1Entry), env)

(***************************************************************************)
(* getClusterMeta: the cluster resolver.                                   *)
(***************************************************************************)
NoMeta == [err |-> "nil", L1Index |-> 0, L1Entry |-> 0, L2Index |-> 0, L2Entry |-> 0,
           Allocated |-> FALSE, Compressed |-> FALSE, Zero |-> FALSE]

\* The resolver that reads the zero flag of a compressed cluster too.
getClusterMeta_zerocompressed(img, off, env) ==
    LET clusterNo == off \div img.clusterSize
        L1Index == clusterNo \div img.l2Entries
    IN  IF L1Index >= Len(img.l1Table)
        THEN [NoMeta EXCEPT !.err = "L1 index out of range", !.L1Index = L1Index]
        ELSE
          LET L1Entry == img.l1Table[L1Index + 1]
              l2TableOffset == l2Offset(L1Entry)
              cm1 == [NoMeta EXCEPT !.L1Index = L1Index, !.L1Entry = L1Entry]
          IN  IF l2TableOffset = 0 THEN cm1
              ELSE
                LET L2Index == clusterNo % img.l2Entries
                    t == getL2Table(img, L1Entry, env)
                IN  IF t.err # "nil" THEN [cm1 EXCEPT !.err = Wrap(t.err), !.L2Index = L2Index]
                    ELSE IF L2Index >= Len(t.table)
                    THEN [cm1 EXCEPT !.err = "L2 index out of range", !.L2Index = L2Index]
                    ELSE
                      LET L2Entry == t.table[L2Index + 1]
                          desc == clusterDescriptor(L2Entry)
                          cm2 == [cm1 EXCEPT !.L2Index = L2Index, !.L2Entry = L2Entry]
                      IN  IF desc = 0 THEN cm2
                          ELSE IF compressed(L2Entry)
                          THEN [cm2 EXCEPT !.Allocated = TRUE, !.Compressed = TRUE,
                                           !.Zero = allZero(desc)]
                          ELSE [cm2 EXCEPT !.Allocated = TRUE, !.Zero = allZero(desc)]

getClusterMeta(img, off, env) ==
    LET clusterNo == off \div img.clusterSize
        L1Index == clusterNo \div img.l2Entries
    IN  IF L1Index >= Len(img.l1Table)
        THEN [NoMeta EXCEPT !.err = "L1 index out of range", !.L1Index = L1Index]
        ELSE
          LET L1Entry == img.l1Table[L1Index + 1]
              l2TableOffset == l2Offset(L1Entry)
              cm1 == [NoMeta EXCEPT !.L1Index = L1Index, !.L1Entry = L1Entry]
          IN  IF l2TableOffset = 0 THEN cm1
              ELSE
                LET L2Index == clusterNo % img.l2Entries
                    t == getL2Table(img, L1Entry, env)
                IN  IF t.err # "nil" THEN [cm1 EXCEPT !.err = Wrap(t.err), !.L2Index = L2Index]
                    ELSE IF L2Index >= Len(t.table)
                    THEN [cm1 EXCEPT !.err = "L2 index out of range", !.L2Index = L2Index]
                    ELSE
                      LET L2Entry == t.table[L2Index + 1]
                          desc == clusterDescriptor(L2Entry)
                          cm2 == [cm1 EXCEPT !.L2Index = L2Index, !.L2Entry = L2Entry]
                      IN  IF desc = 0 THEN cm2
                          ELSE IF compressed(L2Entry)
                          THEN [cm2 EXCEPT !.Allocated = TRUE, !.Compressed = TRUE]
                          ELSE [cm2 EXCEPT !.Allocated = TRUE, !.Zero = allZero(desc)]

(***************************************************************************)
(* readZero: zero-fill clipped to the virtual size.                        *)
(***************************************************************************)
readZero(plen, off, sz) ==
    IF off + plen > sz
    THEN LET l == IF sz - off < 0 THEN 0 ELSE sz - off
         IN  [n |-> l, err |-> "EOF", data |-> Zeros(l)]
    ELSE [n |-> plen, err |-> "nil", data |-> Zeros(plen)]

(***************************************************************************)
(* The random-access store of an image (img.ra.ReadAt): the host file      *)
(* holds every host cluster in full, so a read succeeds unless the         *)
(* environment fails it.                                                   *)
(***************************************************************************)
raReadAt(img, plen, rawOffset, env) ==
    IF env = "ioerr" THEN [n |-> 0, err |-> "EIO", data |-> <<>>]
    ELSE [n |-> plen, err |-> "nil", data |-> [i \in 1..plen |-> RaByte(img, rawOffset + i - 1)]]

(***************************************************************************)
(* The streaming decoder of a compressed cluster (zr.Read after the        *)
(* discard).  The io.Reader contract leaves the decoder a choice that the  *)
(* environment env makes: it may deliver fewer bytes than asked ("short"), *)
(* and when it delivers the last byte of the stream it may report the end  *)
(* of the stream with it ("fullEOF") or not ("full").                      *)
(***************************************************************************)
zrRead(img, plen, host, discard, env) ==
    LET left == img.clusterSize - discard
        k == IF env = "short" THEN Min(1, plen) ELSE Min(plen, left)
    IN  IF env = "ioerr" THEN [n |-> 0, err |-> "EIO", data |-> <<>>]
        ELSE [n |-> k,
              err |-> IF env = "fullEOF" /\ k = left THEN "EOF" ELSE "nil",
              data |-> [i \in 1..k |-> CompByte(img, host, discard + i - 1)]]

readAtAlignedCompressed(img, plen, off, desc, env) ==
    LET host == compressedHostClusterOffset(desc, img.clusterBits)
    IN  IF host = 0
        THEN [n |-> 0, err |-> "invalid host cluster offset 0", data |-> <<>>]
        ELSE zrRead(img, plen, host, off % img.clusterSize, env)

\* readAtAlignedStandard reading from the start of the host cluster whatever
\* the offset within the cluster.
readAtAlignedStandard_nooffset(img, plen, off, desc, env) ==
    IF allZero(desc) THEN readZero(plen, off, img.size)
    ELSE
      LET rawOffset == hostClusterOffset(desc)
      IN  IF rawOffset = 0
          THEN [n |-> 0, err |-> "invalid raw offset 0", data |-> <<>>]
          ELSE LET r == raReadAt(img, plen, rawOffset, env)
               IN  [r EXCEPT !.err = Wrap(r.err)]

readAtAlignedStandard(img, plen, off, desc, env) ==
    IF allZero(desc) THEN readZero(plen, off, img.size)
    ELSE
      LET rawOffset == hostClusterOffset(desc) + (off % img.clusterSize)
      IN  IF rawOffset = 0
          THEN [n |-> 0, err |-> "invalid raw offset 0", data |-> <<>>]
          ELSE LET r == raReadAt(img, plen, rawOffset, env)
               IN  [r EXCEPT !.err = Wrap(r.err)]

RECURSIVE ImageReadAt(_, _, _, _)

readAtAlignedUnallocated(img, plen, off, env) ==
    IF img.backingImage.type = "none" THEN readZero(plen, off, img.size)
    ELSE
      LET r == ImageReadAt(img.backingImage, plen, off, env)
          consumed == IF r.n > 0 THEN r.n ELSE 0
          err == IF IsEOF(r.err) THEN "nil" ELSE r.err
          remaining == plen - r.n
      IN  IF remaining > 0
          THEN LET z == readZero(remaining, off + consumed, img.size)
               IN  [n |-> IF z.n > 0 THEN consumed + z.n ELSE consumed,
                    err |-> IF err = "nil" /\ z.err # "nil" THEN z.err ELSE err,
                    data |-> r.data \o z.data]
          ELSE [n |-> consumed, err |-> err, data |-> r.data]

\* readAtAligned requires that off and off+plen-1 belong to the same cluster.
readAtAligned(img, plen, off, env) ==
    LET cm == getClusterMeta(img, off, env)
    IN  IF cm.err # "nil" THEN [n |-> 0, err |-> cm.err, data |-> <<>>]
        ELSE IF ~cm.Allocated THEN readAtAlignedUnallocated(img, plen, off, env)
        ELSE
          LET desc == clusterDescriptor(cm.L2Entry)
              r == IF cm.Compressed
                   THEN readAtAlignedCompressed(img, plen, off, desc, env)
                   ELSE readAtAlignedStandard(img, plen, off, desc, env)
          IN  [r EXCEPT !.err = Wrap(r.err)]

(***************************************************************************)
(* Qcow2.ReadAt.  ReadAtLoop is the loop "for remaining > 0".              *)
(***************************************************************************)
RECURSIVE ReadAtLoop(_, _, _, _, _, _, _)
ReadAtLoop(img, plen, off, env, n, remaining, data) ==
    IF remaining <= 0 THEN [n |-> n, err |-> "nil", data |-> data]
    ELSE
      LET currentOff == off + n
          clusterNo == currentOff \div img.clusterSize
          clusterBegin == clusterNo * img.clusterSize
          clusterEnd == clusterBegin + img.clusterSize
          readSize == clusterEnd - currentOff
          pIndexBegin == n
          pIndexEnd == IF n + readSize > plen THEN plen ELSE n + readSize
          r == readAtAligned(img, pIndexEnd - pIndexBegin, currentOff, env)
          err == IF r.n = 0 /\ r.err = "nil" THEN "EOF" ELSE r.err
          n2 == IF r.n > 0 THEN n + r.n ELSE n
          remaining2 == IF r.n > 0 THEN remaining - r.n ELSE remaining
          data2 == IF r.n > 0 THEN data \o r.data ELSE data
      IN  IF err # "nil" THEN [n |-> n2, err |-> err, data |-> data2]
          ELSE ReadAtLoop(img, plen, off, env, n2, remaining2, data2)

ReadAt(img, plen, off, env) ==
    IF img.errUnreadable # "nil" THEN [n |-> 0, err |-> img.errUnreadable, data |-> <<>>]
    ELSE IF img.clusterSize = 0 THEN [n |-> 0, err |-> "cluster size cannot be 0", data |-> <<>>]
    ELSE IF plen = 0 THEN [n |-> 0, err |-> "nil", data |-> <<>>]
    ELSE
      LET eof == off + plen >= img.size
          remaining == IF eof THEN img.size - off ELSE plen
          r == ReadAtLoop(img, plen, off, env, 0, remaining, <<>>)
      IN  IF r.err = "nil" /\ eof THEN [r EXCEPT !.err = "EOF"] ELSE r

\* os.File.ReadAt of a raw image.
RawReadAt(img, plen, off) ==
    LET n == IF off >= img.size THEN 0 ELSE Min(plen, img.size - off)
    IN  [n |-> n,
         err |-> IF n < plen THEN "EOF" ELSE "nil",
         data |-> [i \in 1..n |-> RawByte(img, off + i - 1)]]

StubReadable(img) == "unimplemented type"

StubReadAt(img, plen, off) == [n |-> 0, err |-> StubReadable(img), data |-> <<>>]

\* An implementation of image.Image from outside the repository, over the
\* content of the image inner: its ReadAt may return no byte and no error.
MkAny(inner) == [type |-> "any", inner |-> inner]

\* An implementation of image.Image that keeps the contract of the interface:
\* bytes[i] says what byte i - 1 is ("H" in a hole, "0" a stored zero, "1" a
\* stored byte that is not zero).  Extent answers with an extent of at least
\* one and at most extentMax bytes, ReadAt returns an error whenever it
\* returns fewer bytes than asked.
MkSource(bytes, extentMax) ==
    [type |-> "source", size |-> Len(bytes), bytes |-> bytes, extentMax |-> extentMax]

SourceReadAt(img, plen, off, env) ==
    LET left == IF off >= img.size THEN 0 ELSE img.size - off
        most == Min(plen, left)
        n == CASE env = "ioerr" -> 0
               [] env = "short" -> IF most > 0 THEN most - 1 ELSE 0
               [] OTHER -> most
    IN  [n |-> n,
         err |-> CASE env = "ioerr" -> "EIO"
                   [] env = "short" -> "EOF"
                   [] env = "fullEOF" -> IF n < plen \/ off + n = img.size THEN "EOF" ELSE "nil"
                   [] OTHER -> IF n < plen THEN "EOF" ELSE "nil",
         data |-> [i \in 1..n |-> IF img.bytes[off + i] = "1" THEN 1 ELSE 0]]

\* A call through the image.Image interface.
ImageReadAt(img, plen, off, env) ==
    CASE img.type = "qcow2" -> ReadAt(img, plen, off, env)
      [] img.type = "raw" -> RawReadAt(img, plen, off)
      [] img.type = "stub" -> StubReadAt(img, plen, off)
      [] img.type = "any" -> IF env = "zero" THEN [n |-> 0, err |-> "nil", data |-> <<>>]
                             ELSE ImageReadAt(img.inner, plen, off, env)

RECURSIVE ImageSize(_)
ImageSize(img) ==
    CASE img.type = "qcow2" -> img.size
      [] img.type = "raw" -> img.size
      [] img.type = "stub" -> -1
      [] img.type = "any" -> ImageSize(img.inner)

(***************************************************************************)
(* The extent mapper.                                                      *)
(***************************************************************************)
\* image.Extent{}
ZeroExtent == [Start |-> 0, Length |-> 0, Allocated |-> FALSE, Zero |-> FALSE, Compressed |-> FALSE]

RECURSIVE ImageExtent(_, _, _, _)

\* clusterStatus that hands on the backing image's extent as it is, with the
\* length of the clipped request.
clusterStatus_parentlength(img, off, env) ==
    LET cm == getClusterMeta(img, off, env)
    IN  IF cm.err # "nil" THEN [ext |-> ZeroExtent, err |-> cm.err]
        ELSE IF ~cm.Allocated
        THEN IF img.backingImage.type = "none" \/ off >= ImageSize(img.backingImage)
             THEN [ext |-> [ZeroExtent EXCEPT !.Start = off, !.Length = img.clusterSize, !.Zero = TRUE],
                   err |-> "nil"]
             ELSE
               LET bsize == ImageSize(img.backingImage)
                   length == IF off + img.clusterSize > bsize THEN bsize - off ELSE img.clusterSize
               IN  ImageExtent(img.backingImage, off, length, env)
        ELSE [ext |-> [Start |-> off, Length |-> img.clusterSize, Allocated |-> TRUE,
                       Zero |-> cm.Zero, Compressed |-> cm.Compressed],
              err |-> "nil"]

\* clusterStatus returns an extent describing a single cluster; off is aligned
\* to the cluster size.
clusterStatus(img, off, env) ==
    LET cm == getClusterMeta(img, off, env)
    IN  IF cm.err # "nil" THEN [ext |-> ZeroExtent, err |-> cm.err]
        ELSE IF ~cm.Allocated
        THEN IF img.backingImage.type = "none" \/ off >= ImageSize(img.backingImage)
             THEN [ext |-> [ZeroExtent EXCEPT !.Start = off, !.Length = img.clusterSize, !.Zero = TRUE],
                   err |-> "nil"]
             ELSE
               LET bsize == ImageSize(img.backingImage)
                   length == IF off + img.clusterSize > bsize THEN bsize - off ELSE img.clusterSize
                   parent == ImageExtent(img.backingImage, off, length, env)
               IN  IF parent.err # "nil" THEN parent
                   ELSE [ext |-> [parent.ext EXCEPT !.Length = img.clusterSize], err |-> "nil"]
        ELSE [ext |-> [Start |-> off, Length |-> img.clusterSize, Allocated |-> TRUE,
                       Zero |-> cm.Zero, Compressed |-> cm.Compressed],
              err |-> "nil"]

\* sameStatus that does not look at the compressed flag.
sameStatus_nocompressed(a, b) == a.Allocated = b.Allocated /\ a.Zero = b.Zero

sameStatus(a, b) == a.Allocated = b.Allocated /\ a.Zero = b.Zero /\ a.Compressed = b.Compressed

\* The first-cluster clip: Start is overwritten before Length is adjusted.
clipStart(st, start) ==
    IF st.Start < start
    THEN LET newStart == start
         IN  [st EXCEPT !.Start = newStart, !.Length = st.Length - (start - newStart)]
    ELSE st

\* clipEnd without the clip of the last cluster.
clipEnd_noclip(st, remaining, clusterSize) == st

\* The last-cluster clip.
clipEnd(st, remaining, clusterSize) ==
    IF remaining < clusterSize
    THEN [st EXCEPT !.Length = st.Length - (clusterSize - remaining)]
    ELSE st

\* The loop "for remaining > 0" of Qcow2.Extent.
RECURSIVE ExtentLoop(_, _, _, _, _, _)
ExtentLoop(img, start, env, clusterStart, remaining, current) ==
    IF remaining <= 0 THEN [ext |-> current, err |-> "nil"]
    ELSE
      LET st0 == clusterStatus(img, clusterStart, env)
      IN  IF st0.err # "nil" THEN [ext |-> current, err |-> st0.err]
          ELSE
            LET st == clipEnd(clipStart(st0.ext, start), remaining, img.clusterSize)
            IN  IF current.Length = 0
                THEN ExtentLoop(img, start, env, clusterStart + img.clusterSize,
                                remaining - st.Length, st)
                ELSE IF sameStatus(current, st)
                THEN ExtentLoop(img, start, env, clusterStart + img.clusterSize,
                                remaining - st.Length,
                                [current EXCEPT !.Length = current.Length + st.Length])
                ELSE [ext |-> current, err |-> "nil"]

\* Extent with a bounds check that refuses the request that ends at size.
Extent_strictbounds(img, start, length, env) ==
    IF img.errUnreadable # "nil" THEN [ext |-> ZeroExtent, err |-> img.errUnreadable]
    ELSE IF img.clusterSize = 0 THEN [ext |-> ZeroExtent, err |-> "cluster size cannot be 0"]
    ELSE IF start + length >= img.size THEN [ext |-> ZeroExtent, err |-> "length out of bounds"]
    ELSE ExtentLoop(img, start, env, (start \div img.clusterSize) * img.clusterSize,
                    length, ZeroExtent)

Extent(img, start, length, env) ==
    IF img.errUnreadable # "nil" THEN [ext |-> ZeroExtent, err |-> img.errUnreadable]
    ELSE IF img.clusterSize = 0 THEN [ext |-> ZeroExtent, err |-> "cluster size cannot be 0"]
    ELSE IF start + length > img.size THEN [ext |-> ZeroExtent, err |-> "length out of bounds"]
    ELSE ExtentLoop(img, start, env, (start \div img.clusterSize) * img.clusterSize,
                    length, ZeroExtent)

RECURSIVE SourceRun(_, _, _)
\* The number of bytes from start on, at most limit, that are like the first.
SourceRun(img, start, limit) ==
    IF limit <= 1 THEN limit
    ELSE IF (img.bytes[start + 2] = "H") # (img.bytes[start + 1] = "H") THEN 1
    ELSE 1 + SourceRun(img, start + 1, limit - 1)

SourceExtent(img, start, length, env) ==
    IF env = "ioerr" THEN [ext |-> ZeroExtent, err |-> "EIO"]
    ELSE IF start + length > img.size THEN [ext |-> ZeroExtent, err |-> "length out of bounds"]
    ELSE LET hole == length > 0 /\ img.bytes[start + 1] = "H"
         IN  [ext |-> [ZeroExtent EXCEPT !.Start = start,
                                         !.Length = SourceRun(img, start, Min(length, img.extentMax)),
                                         !.Zero = hole, !.Allocated = ~hole],
              err |-> "nil"]

RawExtent(img, start, length) ==
    IF start + length > ImageSize(img) THEN [ext |-> ZeroExtent, err |-> "length out of bounds"]
    ELSE [ext |-> [ZeroExtent EXCEPT !.Start = start, !.Length = length, !.Allocated = TRUE],
          err |-> "nil"]

StubExtent(img, start, length) == [ext |-> ZeroExtent, err |-> StubReadable(img)]

ImageExtent(img, start, length, env) ==
    CASE img.type = "qcow2" -> Extent(img, start, length, env)
      [] img.type = "raw" -> RawExtent(img, start, length)
      [] img.type = "stub" -> StubExtent(img, start, length)
      [] img.type = "any" -> ImageExtent(img.inner, start, length, env)

\* The calls of Convert on its source, through the image.Image interface.
srcReadAt(img, plen, off, env) ==
    IF img.type = "source" THEN SourceReadAt(img, plen, off, env)
    ELSE ImageReadAt(img, plen, off, env)

srcExtent(img, start, length, env) ==
    IF img.type = "source" THEN SourceExtent(img, start, length, env)
    ELSE ImageExtent(img, start, length, env)

srcSize(img) == IF img.type = "source" THEN img.size ELSE ImageSize(img)

(***************************************************************************)
(* The images of the model: every qcow2 image of virtual size 1..MaxSize    *)
(* over the cluster kinds, on top of no backing image, a raw backing image, *)
(* a qcow2 backing image (of either cluster size), a stub, or a qcow2       *)
(* backing image whose own readability check failed.                        *)
(***************************************************************************)
Qcow2Images(tag, kinds, backings, sizes) ==
    UNION {UNION {{MkQcow2(tag, cb, size, ks, b, "nil") :
                      ks \in KindSeqs(NumClusters(size, Pow2(cb)), kinds), b \in backings} :
                  size \in sizes} :
           cb \in ClusterBitsSet}

ChildKinds == {"U", "Z", "S", "C"}

ParentKinds == {"U", "S", "C"}

RawImages == {MkRaw(2, size) : size \in 1..MaxSize}

UnreadableParent ==
    MkQcow2(2, 1, MaxSize, [k \in 1..NumClusters(MaxSize, 2) |-> "S"], NoImage,
            "unsupported encryption")

Parents ==
    {NoImage} \cup RawImages \cup Qcow2Images(2, ParentKinds, {NoImage}, 1..MaxSize)
        \cup {MkStub("vmdk"), UnreadableParent}

\* What the environment may do during one call: see zrRead and raReadAt.
Envs == {"full", "fullEOF", "short", "ioerr"}

(***************************************************************************)
(* The parallel sparse copier: the Converter and its pure steps.           *)
(***************************************************************************)
\* Largest number of workers of a Converter of the model.
MaxWorkers == 2

\* Largest segment size of a Converter of the model.
MaxSegment == 2

\* An error value, with the worker that raised it.
NilErr == [msg |-> "nil", by |-> 0]

\* Options.Validate, after the defaults are set.
Validate(o) ==
    /\ o.SegmentSize > 0 /\ o.BufferSize > 0 /\ o.Workers > 0
    /\ o.SegmentSize % o.BufferSize = 0

ValidOptions ==
    {o \in [SegmentSize : 1..MaxSegment, BufferSize : 1..MaxSegment, Workers : 1..MaxWorkers] :
        Validate(o)}

\* New(opts) followed by reset(size).
NewConverter(o, size) ==
    [size |-> size, segmentSize |-> o.SegmentSize, bufferSize |-> o.BufferSize,
     workers |-> o.Workers, offset |-> 0, err |-> NilErr]

\* nextSegment that hands out the same segment again.
nextSegment_nocursor(c) ==
    IF c.offset = c.size \/ c.err # NilErr
    THEN [c |-> c, start |-> 0, end |-> 0, stop |-> TRUE]
    ELSE LET o1 == c.offset + c.segmentSize
             o2 == IF o1 > c.size THEN c.size ELSE o1
         IN  [c |-> c, start |-> c.offset, end |-> o2, stop |-> FALSE]

\* nextSegment under the mutex: the next segment and the stop flag.
nextSegment(c) ==
    IF c.offset = c.size \/ c.err # NilErr
    THEN [c |-> c, start |-> 0, end |-> 0, stop |-> TRUE]
    ELSE LET o1 == c.offset + c.segmentSize
             o2 == IF o1 > c.size THEN c.size ELSE o1
         IN  [c |-> [c EXCEPT !.offset = o2], start |-> c.offset, end |-> o2, stop |-> FALSE]

\* setError that keeps the last error.
setError_overwrite(c, err) == [c EXCEPT !.err = err]

\* setError under the mutex: keeps the first error set.
setError(c, err) == IF c.err = NilErr THEN [c EXCEPT !.err = err] ELSE c

\* !bytes.Equal(buf[:nr], zero[:nr])
NonZero(buf) == \E k \in 1..Len(buf) : buf[k] # 0

(***************************************************************************)
(* State.  image is the opened image and op the operation in progress on   *)
(* it.  conv is the Converter, wk the workers of its Convert call (their   *)
(* position and locals), dst the destination, progress the sum of the      *)
(* Updater calls and returned what Convert has returned.  segs, errlog and *)
(* wcount record the run: the segments handed out, the errors passed to    *)
(* setError in order, and how often each destination byte was written.     *)
(***************************************************************************)
VARIABLES image, op, conv, wk, dst, progress, returned, segs, errlog, wcount,
          cache, gr, last

vars == <<image, op, conv, wk, dst, progress, returned, segs, errlog, wcount, cache, gr, last>>

convVars == <<conv, wk, dst, progress, returned, segs, errlog, wcount>>

\* The LRU cache, the goroutines that call it, and the last call that ran.
lruVars == <<cache, gr, last>>

NoCache == [entries |-> <<>>, recentlyUsed |-> <<>>, capacity |-> 0, mutex |-> 0,
            crashed |-> FALSE]

NoLRU == cache = NoCache /\ gr = <<>> /\ last = [name |-> "none"]

Idle == [name |-> "idle"]

NotReturned == [done |-> FALSE, err |-> NilErr]

NoConverter == [size |-> 0, segmentSize |-> 0, bufferSize |-> 0, workers |-> 0,
                offset |-> 0, err |-> NilErr]

Init ==
    /\ image \in Qcow2Images(1, ChildKinds, Parents, 1..MaxSize)
    /\ op = Idle
    /\ conv = NoConverter
    /\ wk = <<>>
    /\ dst = <<>>
    /\ progress = 0
    /\ returned = NotReturned
    /\ segs = <<>>
    /\ errlog = <<>>
    /\ wcount = <<>>
    /\ NoLRU

\* img.Extent(start, length)
CallExtent ==
    /\ op.name = "idle"
    /\ \E start \in 0..image.size, length \in 0..(image.size + 1), env \in {"full", "ioerr"} :
          /\ start + length <= image.size + 1
          /\ op' = [name |-> "Extent", start |-> start, length |-> length, env |-> env,
                    res |-> Extent(image, start, length, env)]
    /\ UNCHANGED <<image, convVars, lruVars>>

\* img.ReadAt(p, off) with len(p) = plen
CallReadAt ==
    /\ op.name = "idle"
    /\ \E off \in 0..(image.size + 1), plen \in 1..(image.size + 2), env \in Envs :
          /\ off + plen <= image.size + 2
          /\ op' = [name |-> "ReadAt", off |-> off, plen |-> plen, env |-> env,
                    res |-> ReadAt(image, plen, off, env)]
    /\ UNCHANGED <<image, convVars, lruVars>>

\* listExtents of the tests: the walk over the whole image.
ListExtentsStart ==
    /\ op.name = "idle"
    /\ op' = [name |-> "listExtents", start |-> 0, extents |-> <<>>, err |-> "nil",
              done |-> ~(0 < image.size)]
    /\ UNCHANGED <<image, convVars, lruVars>>

ListExtentsStep ==
    /\ op.name = "listExtents"
    /\ ~op.done
    /\ \E env \in {"full", "ioerr"} :
          LET end == image.size
              r == Extent(image, op.start, end - op.start, env)
          IN  IF r.err # "nil" THEN op' = [op EXCEPT !.err = r.err, !.done = TRUE]
              ELSE IF r.ext.Start # op.start
              THEN op' = [op EXCEPT !.err = "invalid extent start", !.done = TRUE]
              ELSE IF r.ext.Length <= 0
              THEN op' = [op EXCEPT !.err = "invalid extent length", !.done = TRUE]
              ELSE op' = [op EXCEPT !.extents = Append(@, r.ext),
                                    !.start = @ + r.ext.Length,
                                    !.done = ~(op.start + r.ext.Length < end)]
    /\ UNCHANGED <<image, convVars, lruVars>>

\* The call returns and the image is idle again.
Return ==
    /\ op.name \in {"Extent", "ReadAt"} \/ (op.name = "listExtents" /\ op.done)
    /\ op' = Idle
    /\ UNCHANGED <<image, convVars, lruVars>>

Next == CallExtent \/ CallReadAt \/ ListExtentsStart \/ ListExtentsStep \/ Return

Spec == Init /\ [][Next]_vars

(***************************************************************************)
(* Convert.  The images it copies, and the state after reset(size) with    *)
(* the workers started.                                                    *)
(***************************************************************************)
ConvertKinds == {"U", "S", "S0", "C"}

ConvertParents == Qcow2Images(2, {"U", "S"}, {NoImage}, {MaxSize - 1})

ConvertImages ==
    Qcow2Images(1, ConvertKinds, {NoImage}, {MaxSize - 1})
        \cup Qcow2Images(1, {"U"}, ConvertParents, {MaxSize - 1})

\* zeroRead: the last ReadAt of the worker returned no byte and no error for
\* a buffer that was not empty.
NewWorker == [pc |-> "next", start |-> 0, end |-> 0, extent |-> ZeroExtent, err |-> NilErr,
              zeroRead |-> FALSE]

\* A worker that has returned: its locals are gone.
Returned == [NewWorker EXCEPT !.pc = "done"]

InitConvert ==
    /\ image \in ConvertImages
    /\ op = Idle
    /\ \E o \in ValidOptions :
          /\ conv = NewConverter(o, ImageSize(image))
          /\ wk = [w \in 1..o.Workers |-> NewWorker]
    /\ dst = Zeros(ImageSize(image))
    /\ wcount = Zeros(ImageSize(image))
    /\ progress = 0
    /\ returned = NotReturned
    /\ segs = <<>>
    /\ errlog = <<>>
    /\ NoLRU

\* What the source may do during one ReadAt.
SourceEnvs(img) == IF img.type = "any" THEN Envs \cup {"zero"} ELSE Envs

\* progress.Update(n)
Update_drop(total, n) == total

Update(total, n) == total + n

\* Continue whose inner loop runs while extent.Length >= 0.
Continue_emptybuffer(wrec) ==
    IF wrec.extent.Length >= 0 /\ ~wrec.extent.Zero THEN [wrec EXCEPT !.pc = "read"]
    ELSE IF wrec.start < wrec.end THEN [wrec EXCEPT !.pc = "extent"]
    ELSE [wrec EXCEPT !.pc = "next"]

\* Where a worker goes on after a buffer or a zero extent.
Continue(wrec) ==
    IF wrec.extent.Length > 0 /\ ~wrec.extent.Zero THEN [wrec EXCEPT !.pc = "read"]
    ELSE IF wrec.start < wrec.end THEN [wrec EXCEPT !.pc = "extent"]
    ELSE [wrec EXCEPT !.pc = "next"]

\* start, end, stop := c.nextSegment()
NextSegment(w) ==
    /\ wk[w].pc = "next"
    /\ LET r == nextSegment(conv)
       IN  /\ conv' = r.c
           /\ IF r.stop
              THEN /\ wk' = [wk EXCEPT ![w] = Returned]
                   /\ UNCHANGED segs
              ELSE /\ wk' = [wk EXCEPT ![w] = Continue([@ EXCEPT !.start = r.start, !.end = r.end,
                                                               !.extent = ZeroExtent])]
                   /\ segs' = Append(segs, [start |-> r.start, end |-> r.end])
    /\ UNCHANGED <<image, op, dst, progress, returned, errlog, wcount, lruVars>>

\* extent, err := img.Extent(start, end-start), and the skip of a zero extent
GetExtent(w) ==
    /\ wk[w].pc = "extent"
    /\ \E env \in {"full", "ioerr"} :
        \E r \in {srcExtent(image, wk[w].start, wk[w].end - wk[w].start, env)} :
              IF r.err # "nil"
              THEN /\ wk' = [wk EXCEPT ![w].pc = "seterr", ![w].err = [msg |-> r.err, by |-> w]]
                   /\ UNCHANGED progress
              ELSE IF r.ext.Zero
              THEN /\ wk' = [wk EXCEPT ![w] = Continue([@ EXCEPT !.start = @ + r.ext.Length,
                                                               !.extent = ZeroExtent])]
                   /\ progress' = Update(progress, r.ext.Length)
              ELSE /\ wk' = [wk EXCEPT ![w] = Continue([@ EXCEPT !.extent = r.ext])]
                   /\ UNCHANGED progress
    /\ UNCHANGED <<image, op, conv, dst, returned, segs, errlog, wcount, lruVars>>

\* One buffer of the extent: nr, err := img.ReadAt(buf[:n], start), and the
\* write of buf[:nr] unless it is all zeros; then the worker advances.
CopyBuffer(w) ==
    /\ wk[w].pc = "read"
    /\ \E env \in SourceEnvs(image) :
        \E r \in {srcReadAt(image, Min(conv.bufferSize, wk[w].extent.Length), wk[w].start, env)} :
          LET start == wk[w].start
              nr == r.n
              buf == r.data
              fail(msg) == [wk EXCEPT ![w].pc = "seterr", ![w].err = [msg |-> msg, by |-> w]]
              advance == [wk EXCEPT ![w] = Continue([@ EXCEPT !.start = @ + nr,
                                                             !.extent.Length = @ - nr,
                                                             !.extent.Start = @ + nr,
                                                             !.zeroRead = (nr = 0 /\ r.err = "nil")])]
          IN  IF r.err # "nil" /\ ~IsEOF(r.err)
              THEN /\ wk' = fail(r.err)
                   /\ UNCHANGED <<dst, wcount, progress>>
              ELSE IF r.err # "nil" /\ nr = 0
              THEN /\ wk' = fail("unexpected EOF")
                   /\ UNCHANGED <<dst, wcount, progress>>
              ELSE IF NonZero(buf)
              THEN \E outcome \in {"ok", "error", "short"} :
                     LET nw == IF outcome = "ok" THEN nr
                               ELSE IF outcome = "short" THEN nr - 1 ELSE 0
                     IN  /\ dst' = [i \in 1..Len(dst) |->
                                       IF i - 1 >= start /\ i - 1 < start + nw
                                       THEN buf[i - start] ELSE dst[i]]
                         /\ wcount' = [i \in 1..Len(wcount) |->
                                       IF i - 1 >= start /\ i - 1 < start + nw
                                       THEN wcount[i] + 1 ELSE wcount[i]]
                         /\ IF outcome = "ok"
                            THEN /\ wk' = advance
                                 /\ progress' = Update(progress, nr)
                            ELSE /\ wk' = fail(IF outcome = "error" THEN "write error"
                                               ELSE "short write")
                                 /\ UNCHANGED progress
              ELSE /\ wk' = advance
                   /\ progress' = Update(progress, nr)
                   /\ UNCHANGED <<dst, wcount>>
    /\ UNCHANGED <<image, op, conv, returned, segs, errlog, lruVars>>

\* c.setError(err); return
SetError(w) ==
    /\ wk[w].pc = "seterr"
    /\ conv' = setError(conv, wk[w].err)
    /\ errlog' = Append(errlog, wk[w].err)
    /\ wk' = [wk EXCEPT ![w] = Returned]
    /\ UNCHANGED <<image, op, dst, progress, returned, segs, wcount, lruVars>>

\* wg.Wait(); return c.err
ConvertReturn ==
    /\ ~returned.done
    /\ \A w \in DOMAIN wk : wk[w].pc = "done"
    /\ returned' = [done |-> TRUE, err |-> conv.err]
    /\ UNCHANGED <<image, op, conv, wk, dst, progress, segs, errlog, wcount, lruVars>>

NextConvert ==
    \/ \E w \in DOMAIN wk : NextSegment(w)
    \/ \E w \in DOMAIN wk : GetExtent(w)
    \/ \E w \in DOMAIN wk : CopyBuffer(w)
    \/ \E w \in DOMAIN wk : SetError(w)
    \/ ConvertReturn

SpecConvert == InitConvert /\ [][NextConvert]_vars

(***************************************************************************)
(* Convert of a source that is any implementation of image.Image.          *)
(***************************************************************************)
AnyImages == {MkAny(img) : img \in Qcow2Images(1, {"U", "S", "S0"}, {NoImage}, {MaxSize - 1})}

InitConvertAny ==
    /\ image \in AnyImages
    /\ op = Idle
    /\ \E o \in ValidOptions :
          /\ conv = NewConverter(o, ImageSize(image))
          /\ wk = [w \in 1..o.Workers |-> NewWorker]
    /\ dst = Zeros(ImageSize(image))
    /\ wcount = Zeros(ImageSize(image))
    /\ progress = 0
    /\ returned = NotReturned
    /\ segs = <<>>
    /\ errlog = <<>>
    /\ NoLRU

SpecConvertAny == InitConvertAny /\ [][NextConvert]_vars

(***************************************************************************)
(* The header check.  A parsed header carries the magic, the version, the   *)
(* cluster bits (scaled: the smallest accepted value is MinClusterBits),    *)
(* the crypt method, and, when the version 3 block and the additional      *)
(* block were parsed, the incompatible-feature bits and the compression    *)
(* type.  The registry is the set of compression types that have a         *)
(* decompressor.  An error is a string; Sentinel gives the sentinel error  *)
(* it wraps, which is what errors.Is tests.                                *)
(***************************************************************************)
MaxFeatureBit == 5
MinClusterBits == 1
Magic == "QFI"
CryptMethodNone == 0
CompressionTypeZlib == 0
FeatureBits == 0..MaxFeatureBit

Sentinel(err) ==
    CASE err \in {"not qcow2", "not qcow2: short header", "not qcow2: magic", "not qcow2: version"}
            -> "ErrNotQcow2"
      [] err = "unsupported encryption" -> "ErrUnsupportedEncryption"
      [] err \in {"unsupported feature: external data file", "unsupported feature: bit"}
            -> "ErrUnsupportedFeature"
      [] err \in {"unsupported compression", "unsupported compression: no decompressor"}
            -> "ErrUnsupportedCompression"
      [] err \in {"unsupported backing file: resolve", "unsupported backing file: open",
                  "unsupported backing file: format"}
            -> "ErrUnsupportedBackingFile"
      [] err = "wrong type" -> "ErrWrongType"
      [] OTHER -> "none"

\* ErrNotQcow2 wraps image.ErrWrongType.
IsWrongType(err) == Sentinel(err) \in {"ErrNotQcow2", "ErrWrongType"}

RECURSIVE featureLoop(_, _)
featureLoop(features, i) ==
    IF i > MaxFeatureBit THEN "nil"
    ELSE IF i \notin features THEN featureLoop(features, i + 1)
    ELSE CASE i \in {0, 1} -> featureLoop(features, i + 1)
           [] i = 4 -> featureLoop(features, i + 1)
           [] i = 3 -> featureLoop(features, i + 1)
           [] i = 2 -> "unsupported feature: external data file"
           [] OTHER -> "unsupported feature: bit"

HeaderReadable_nocrypt(header, registry) ==
    IF header.Magic # Magic THEN "not qcow2"
    ELSE IF header.Version < 2 THEN "not qcow2"
    ELSE IF header.ClusterBits < MinClusterBits THEN "expected cluster bits >= 9"
    ELSE LET f == IF header.hasV3 THEN featureLoop(header.IncompatibleFeatures, 0) ELSE "nil"
         IN  IF f # "nil" THEN f
             ELSE IF header.hasAdditional /\ header.CompressionType \notin registry
                  THEN "unsupported compression"
                  ELSE "nil"

HeaderReadable(header, registry) ==
    IF header.Magic # Magic THEN "not qcow2"
    ELSE IF header.Version < 2 THEN "not qcow2"
    ELSE IF header.ClusterBits < MinClusterBits THEN "expected cluster bits >= 9"
    ELSE IF header.CryptMethod # CryptMethodNone THEN "unsupported encryption"
    ELSE LET f == IF header.hasV3 THEN featureLoop(header.IncompatibleFeatures, 0) ELSE "nil"
         IN  IF f # "nil" THEN f
             ELSE IF header.hasAdditional /\ header.CompressionType \notin registry
                  THEN "unsupported compression"
                  ELSE "nil"

Headers ==
    [Magic : {Magic, "other"}, Version : 1..3,
     ClusterBits : {MinClusterBits - 1, MinClusterBits},
     CryptMethod : {CryptMethodNone, 1},
     hasV3 : BOOLEAN, IncompatibleFeatures : SUBSET FeatureBits,
     hasAdditional : BOOLEAN, CompressionType : {CompressionTypeZlib, 1}]

Registries == {{CompressionTypeZlib}, {CompressionTypeZlib, 1}}

InitHeader ==
    /\ image = NoImage
    /\ op \in [name : {"Header.Readable"}, header : Headers, registry : Registries,
               done : {FALSE}, res : {"nil"}]
    /\ conv = NoConverter
    /\ wk = <<>>
    /\ dst = <<>>
    /\ progress = 0
    /\ returned = NotReturned
    /\ segs = <<>>
    /\ errlog = <<>>
    /\ wcount = <<>>
    /\ NoLRU

CallHeaderReadable ==
    /\ op.name = "Header.Readable"
    /\ ~op.done
    /\ op' = [op EXCEPT !.done = TRUE, !.res = HeaderReadable(op.header, op.registry)]
    /\ UNCHANGED <<image, convVars, lruVars>>

NextHeader == CallHeaderReadable

SpecHeader == InitHeader /\ [][NextHeader]_vars

(***************************************************************************)
(* Opening a file.  A file is described by what its bytes say: how many of  *)
(* the fixed header blocks it holds in full (avail: 0 none, 1 the version   *)
(* 2 block, 2 also the version 3 block, 3 also the additional block),       *)
(* whether it holds a part of the next block, the header fields, whether    *)
(* the header length reaches past the version 3 block, whether the L1      *)
(* table can be read, which stub format's magic it starts with, and its    *)
(* backing file.  A backing file reference says which step of loading it   *)
(* fails, if any, the declared format, and the file it names.  Every qcow2 *)
(* file of the model holds one standard cluster of the smallest cluster    *)
(* size.                                                                    *)
(*                                                                          *)
(* The result of an open is the image, the error, and whether the call     *)
(* crashed.  An image that is a nil interface value is NilInterface; a nil *)
(* pointer of a concrete type held in an interface value is NilPtr.        *)
(***************************************************************************)
NilInterface == [type |-> "nil"]
NilPtr(t) == [type |-> "nilptr", of |-> t]

NoBacking == [fail |-> "absent"]

GoodFile ==
    [avail |-> 3, partial |-> FALSE, Magic |-> Magic, Version |-> 3,
     ClusterBits |-> MinClusterBits, CryptMethod |-> CryptMethodNone,
     IncompatibleFeatures |-> {}, longHeader |-> TRUE,
     CompressionType |-> CompressionTypeZlib, l1ok |-> TRUE, probe |-> "none",
     backing |-> NoBacking]

\* binary.Read of a block the file does not hold in full.
shortRead(file) == IF file.partial THEN "unexpected EOF" ELSE "EOF"

readHeader(file) ==
    LET v2 == [Magic |-> file.Magic, Version |-> file.Version,
               ClusterBits |-> file.ClusterBits, CryptMethod |-> file.CryptMethod,
               hasV3 |-> FALSE, IncompatibleFeatures |-> {},
               hasAdditional |-> FALSE, CompressionType |-> CompressionTypeZlib]
    IN  IF file.avail < 1 THEN [header |-> v2, err |-> "not qcow2: short header"]
        ELSE IF file.Magic # Magic THEN [header |-> v2, err |-> "not qcow2: magic"]
        ELSE IF file.Version \in {0, 1} THEN [header |-> v2, err |-> "not qcow2: version"]
        ELSE IF file.Version = 2 THEN [header |-> v2, err |-> "nil"]
        ELSE IF file.avail < 2 THEN [header |-> v2, err |-> shortRead(file)]
        ELSE IF file.longHeader /\ file.avail < 3 THEN [header |-> v2, err |-> shortRead(file)]
        ELSE [header |-> [v2 EXCEPT !.hasV3 = TRUE,
                                    !.IncompatibleFeatures = file.IncompatibleFeatures,
                                    !.hasAdditional = TRUE,
                                    !.CompressionType = IF file.longHeader
                                                        THEN file.CompressionType
                                                        ELSE CompressionTypeZlib],
              err |-> "nil"]

\* Close of what openWithType returned together with an error: TRUE when
\* the call dereferences nil.
closePanics(img) ==
    CASE img.type = "nil" -> TRUE
      [] img.type = "nilptr" -> img.of = "qcow2"
      [] OTHER -> FALSE

\* The image Open returns when the header check failed: cluster size, L2
\* entries and L1 table are not loaded.
unloaded(tag, header, unreadable) ==
    [MkQcow2(tag, MinClusterBits, Pow2(MinClusterBits), <<"S">>, NoImage, unreadable)
        EXCEPT !.clusterBits = header.ClusterBits, !.clusterSize = 0,
               !.l2Entries = 0, !.l1Table = <<>>]

\* Width of the type int in the model (64 in the program).
IntBits == 4

\* Largest value of the cluster_bits field of a header of the model.
MaxClusterBits == 7

\* x << n in the type int: bits shifted out are lost, the top bit is the sign.
ShiftLeft(x, n) ==
    IF n >= IntBits THEN 0
    ELSE LET v == (x * Pow2(n)) % Pow2(IntBits)
         IN  IF v >= Pow2(IntBits - 1) THEN v - Pow2(IntBits) ELSE v

\* The image Open returns when the header check passed.
loaded(tag, header, backing, unreadable) ==
    LET clusterSize == ShiftLeft(1, header.ClusterBits)
    IN  IF clusterSize = Pow2(header.ClusterBits)
        THEN MkQcow2(tag, header.ClusterBits, Pow2(header.ClusterBits), <<"S">>, backing,
                     unreadable)
        ELSE [MkQcow2(tag, MinClusterBits, Pow2(MinClusterBits), <<"S">>, backing, unreadable)
                 EXCEPT !.clusterBits = header.ClusterBits,
                        !.clusterSize = clusterSize,
                        !.l2Entries = -((-clusterSize) \div L2EntrySize)]

StubTypes == {"vmdk"}

RECURSIVE OpenWithType(_, _, _, _)
RECURSIVE qcow2Open(_, _, _)
RECURSIVE GenericLoop(_, _, _, _)

qcow2Open(file, registry, tag) ==
    LET h == readHeader(file)
        header == h.header
        unreadable == HeaderReadable(header, registry)
        ok(img) == [img |-> img, err |-> "nil", panic |-> FALSE]
        compressionType == IF header.hasAdditional THEN header.CompressionType
                           ELSE CompressionTypeZlib
        b == file.backing
    IN  IF h.err # "nil" THEN [img |-> NilPtr("qcow2"), err |-> h.err, panic |-> FALSE]
        ELSE IF unreadable # "nil" THEN ok(unloaded(tag, header, unreadable))
        ELSE IF ~file.l1ok
             THEN [img |-> [loaded(tag, header, NoImage, "nil") EXCEPT !.l1Table = <<>>],
                   err |-> "failed to read L1 table", panic |-> FALSE]
        ELSE IF compressionType \notin registry
             THEN ok(loaded(tag, header, NoImage, "unsupported compression: no decompressor"))
        ELSE IF b.fail = "absent" THEN ok(loaded(tag, header, NoImage, "nil"))
        ELSE IF b.fail = "size"
             THEN ok(loaded(tag, header, NoImage, "expected backing file offset <= 1023"))
        ELSE IF b.fail = "name"
             THEN ok(loaded(tag, header, NoImage, "failed to read backing file name"))
        ELSE IF b.fail = "resolve"
             THEN ok(loaded(tag, header, NoImage, "unsupported backing file: resolve"))
        ELSE IF b.fail = "open"
             THEN ok(loaded(tag, header, NoImage, "unsupported backing file: open"))
        ELSE LET r == OpenWithType(b.target, b.format, registry, tag + 1)
             IN  IF r.panic THEN r
                 ELSE IF r.err # "nil"
                 THEN IF closePanics(r.img)
                      THEN [img |-> NilInterface, err |-> "nil", panic |-> TRUE]
                      ELSE ok(loaded(tag, header, r.img, "unsupported backing file: format"))
                 ELSE ok(loaded(tag, header, r.img, "nil"))

\* stub.New with the probers of one stub format.
stubNew(file, t) ==
    IF file.probe = t THEN [img |-> MkStub(t), err |-> "nil", panic |-> FALSE]
    ELSE [img |-> NilPtr("stub"), err |-> "wrong type", panic |-> FALSE]

rawOpen(file, tag) == [img |-> MkRaw(tag, Pow2(MinClusterBits)), err |-> "nil", panic |-> FALSE]

Types == <<"qcow2", "vmdk", "raw">>

GenericLoop(file, registry, tag, i) ==
    IF i > Len(Types) THEN OpenWithType(file, "raw", registry, tag)
    ELSE LET r == OpenWithType(file, Types[i], registry, tag)
         IN  IF r.panic \/ r.err = "nil" THEN r
             ELSE IF ~IsWrongType(r.err)
                  THEN [r EXCEPT !.err = "failed to open the image as " \o Types[i]]
                  ELSE GenericLoop(file, registry, tag, i + 1)

GenericOpen(file, registry, tag) == GenericLoop(file, registry, tag, 1)

OpenWithType(file, t, registry, tag) ==
    CASE t = "" -> GenericOpen(file, registry, tag)
      [] t = "qcow2" -> qcow2Open(file, registry, tag)
      [] t \in StubTypes -> stubNew(file, t)
      [] t = "raw" -> rawOpen(file, tag)
      [] OTHER -> [img |-> NilInterface, err |-> "unknown type", panic |-> FALSE]

(***************************************************************************)
(* The files of the model: every header over a complete file, every        *)
(* truncation of well-formed and foreign files, a file whose L1 table      *)
(* cannot be read, and a well-formed file over every backing file          *)
(* reference.  The files a reference names are a well-formed file, an      *)
(* encrypted one, a truncated one, one whose L1 table cannot be read, a    *)
(* file of a stub format and a file of no known format.                    *)
(***************************************************************************)
Formats == {"", "qcow2", "vmdk", "raw", "bogus"}

TargetFiles ==
    {GoodFile,
     [GoodFile EXCEPT !.CryptMethod = 1],
     [GoodFile EXCEPT !.avail = 1],
     [GoodFile EXCEPT !.l1ok = FALSE],
     [GoodFile EXCEPT !.Magic = "other", !.probe = "vmdk"],
     [GoodFile EXCEPT !.Magic = "other"]}

Backings ==
    {NoBacking} \cup {[fail |-> f] : f \in {"size", "name", "resolve", "open"}}
        \cup [fail : {"none"}, format : Formats, target : TargetFiles]

HeaderFiles ==
    {[GoodFile EXCEPT !.Magic = m, !.Version = v, !.ClusterBits = cb, !.CryptMethod = cm,
                      !.IncompatibleFeatures = f, !.longHeader = lh, !.CompressionType = ct] :
        m \in {Magic, "other"}, v \in 1..3, cb \in {MinClusterBits - 1, MinClusterBits},
        cm \in {CryptMethodNone, 1}, f \in {{}, {2}, {0, 3}}, lh \in BOOLEAN,
        ct \in {CompressionTypeZlib, 1}}

TruncatedFiles ==
    {[GoodFile EXCEPT !.avail = a, !.partial = p, !.Magic = m, !.Version = v,
                      !.longHeader = lh, !.probe = pr] :
        a \in 0..3, p \in BOOLEAN, m \in {Magic, "other"}, v \in 2..3, lh \in BOOLEAN,
        pr \in {"none", "vmdk"}}

BackedFiles ==
    {[GoodFile EXCEPT !.Version = v, !.backing = b] : v \in 2..3, b \in Backings}

Files ==
    HeaderFiles \cup TruncatedFiles \cup BackedFiles \cup {[GoodFile EXCEPT !.l1ok = FALSE]}

(***************************************************************************)
(* Opening one file, by qcow2's Open or by the generic Open, and then      *)
(* calling Readable, ReadAt and Extent of the image that was returned.     *)
(***************************************************************************)
NoCall == [name |-> "none"]

InitOpen ==
    /\ image = NoImage
    /\ op \in [name : {"Open"}, file : Files, registry : Registries, pc : {"start"},
               via : {"none"}, err : {"nil"}, panic : {FALSE}, call : {NoCall}]
    /\ conv = NoConverter
    /\ wk = <<>>
    /\ dst = <<>>
    /\ progress = 0
    /\ returned = NotReturned
    /\ segs = <<>>
    /\ errlog = <<>>
    /\ wcount = <<>>
    /\ NoLRU

Opened(via, r) ==
    /\ op' = [op EXCEPT !.pc = IF r.panic THEN "crashed" ELSE "returned",
                        !.via = via, !.err = r.err, !.panic = r.panic]
    /\ image' = r.img
    /\ UNCHANGED <<convVars, lruVars>>

CallQcow2Open ==
    /\ op.name = "Open" /\ op.pc = "start"
    /\ \E r \in {qcow2Open(op.file, op.registry, 1)} : Opened("qcow2.Open", r)

CallGenericOpen ==
    /\ op.name = "Open" /\ op.pc = "start"
    /\ \E r \in {GenericOpen(op.file, op.registry, 1)} : Opened("Open", r)

OpenedReadable ==
    /\ op.name = "Open" /\ op.pc = "returned" /\ image.type = "qcow2"
    /\ op.call = NoCall
    /\ op' = [op EXCEPT !.call = [name |-> "Readable", res |-> image.errUnreadable]]
    /\ UNCHANGED <<image, convVars, lruVars>>

\* The calls on an image whose readability check failed; Spec makes the
\* calls on readable images.
OpenedReadAt ==
    /\ op.name = "Open" /\ op.pc = "returned" /\ image.type = "qcow2"
    /\ op.call = NoCall
    /\ image.errUnreadable # "nil"
    /\ \E plen \in 0..MaxSize, off \in 0..MaxSize, env \in Envs :
          op' = [op EXCEPT !.call = [name |-> "ReadAt", plen |-> plen, off |-> off,
                                     env |-> env, res |-> ReadAt(image, plen, off, env)]]
    /\ UNCHANGED <<image, convVars, lruVars>>

OpenedExtent ==
    /\ op.name = "Open" /\ op.pc = "returned" /\ image.type = "qcow2"
    /\ op.call = NoCall
    /\ image.errUnreadable # "nil"
    /\ \E start \in 0..MaxSize, length \in 0..MaxSize, env \in {"full", "ioerr"} :
          op' = [op EXCEPT !.call = [name |-> "Extent", start |-> start, length |-> length,
                                     env |-> env, res |-> Extent(image, start, length, env)]]
    /\ UNCHANGED <<image, convVars, lruVars>>

OpenedReturn ==
    /\ op.name = "Open" /\ op.pc = "returned"
    /\ op.call # NoCall
    /\ op' = [op EXCEPT !.call = NoCall]
    /\ UNCHANGED <<image, convVars, lruVars>>

NextOpen ==
    \/ CallQcow2Open
    \/ CallGenericOpen
    \/ OpenedReadable
    \/ OpenedReadAt
    \/ OpenedExtent
    \/ OpenedReturn

SpecOpen == InitOpen /\ [][NextOpen]_vars

(***************************************************************************)
(* The LRU cache.  entries maps a key to the list element that holds it     *)
(* (an element is named by the key it was created for); recentlyUsed is    *)
(* the list of elements, most recently used first; mutex is the goroutine  *)
(* that holds the lock, or 0.  A call that dereferences nil crashes the    *)
(* program.                                                                 *)
(***************************************************************************)
MaxCapacity == 2
MaxKeys == 3
MaxGoroutines == 2
Keys == 1..MaxKeys
Values == {"a", "b"}
Missing == ""

New(capacity) ==
    [entries |-> <<>>, recentlyUsed |-> <<>>, capacity |-> capacity, mutex |-> 0,
     crashed |-> FALSE]

\* The position in the list of the element with the given name.
Position(l, elem) == CHOOSE i \in 1..Len(l) : l[i].Key = elem

Remove(l, i) == [j \in 1..(Len(l) - 1) |-> IF j < i THEN l[j] ELSE l[j + 1]]

MoveToFront(l, i) == <<l[i]>> \o Remove(l, i)

PushFront(l, entry) == <<entry>> \o l

Get(c, key) ==
    IF key \in DOMAIN c.entries
    THEN LET i == Position(c.recentlyUsed, c.entries[key])
             l == MoveToFront(c.recentlyUsed, i)
         IN  [c |-> [c EXCEPT !.recentlyUsed = l], value |-> l[1].Value, ok |-> TRUE]
    ELSE [c |-> c, value |-> Missing, ok |-> FALSE]

Add_evictfront(c, key, value) ==
    IF key \in DOMAIN c.entries
    THEN LET i == Position(c.recentlyUsed, c.entries[key])
             l == MoveToFront(c.recentlyUsed, i)
         IN  [c EXCEPT !.recentlyUsed = [l EXCEPT ![1].Value = value]]
    ELSE IF Cardinality(DOMAIN c.entries) >= c.capacity /\ c.recentlyUsed = <<>>
    THEN [c EXCEPT !.crashed = TRUE]
    ELSE LET full == Cardinality(DOMAIN c.entries) >= c.capacity
             oldest == c.recentlyUsed[1]
             l == IF full THEN Remove(c.recentlyUsed, 1) ELSE c.recentlyUsed
             keep == IF full THEN DOMAIN c.entries \ {oldest.Key} ELSE DOMAIN c.entries
         IN  [c EXCEPT !.recentlyUsed = PushFront(l, [Key |-> key, Value |-> value]),
                       !.entries = [k \in keep \cup {key} |-> IF k = key THEN key ELSE c.entries[k]]]

Add(c, key, value) ==
    IF key \in DOMAIN c.entries
    THEN LET i == Position(c.recentlyUsed, c.entries[key])
             l == MoveToFront(c.recentlyUsed, i)
         IN  [c EXCEPT !.recentlyUsed = [l EXCEPT ![1].Value = value]]
    ELSE IF Cardinality(DOMAIN c.entries) >= c.capacity /\ c.recentlyUsed = <<>>
    THEN [c EXCEPT !.crashed = TRUE]
    ELSE LET full == Cardinality(DOMAIN c.entries) >= c.capacity
             oldest == c.recentlyUsed[Len(c.recentlyUsed)]
             l == IF full THEN Remove(c.recentlyUsed, Len(c.recentlyUsed)) ELSE c.recentlyUsed
             keep == IF full THEN DOMAIN c.entries \ {oldest.Key} ELSE DOMAIN c.entries
         IN  [c EXCEPT !.recentlyUsed = PushFront(l, [Key |-> key, Value |-> value]),
                       !.entries = [k \in keep \cup {key} |-> IF k = key THEN key ELSE c.entries[k]]]

(***************************************************************************)
(* Goroutines call Get and Add of one cache.  A call waits for the lock,    *)
(* takes it, runs its body, and releases the lock when it returns or        *)
(* crashes.  The arguments of a call are drawn where its body runs.  last   *)
(* is the call that ran last, with the list it found.                       *)
(***************************************************************************)
IdleGoroutine == [pc |-> "idle"]

InitLRU ==
    /\ image = NoImage
    /\ op = Idle
    /\ conv = NoConverter
    /\ wk = <<>>
    /\ dst = <<>>
    /\ progress = 0
    /\ returned = NotReturned
    /\ segs = <<>>
    /\ errlog = <<>>
    /\ wcount = <<>>
    /\ \E capacity \in 0..MaxCapacity : cache = New(capacity)
    /\ gr = [g \in 1..MaxGoroutines |-> IdleGoroutine]
    /\ last = [name |-> "none"]

Call(g) ==
    /\ ~cache.crashed
    /\ gr[g].pc = "idle"
    /\ gr' = [gr EXCEPT ![g].pc = "lock"]
    /\ UNCHANGED <<image, op, convVars, cache, last>>

Lock(g) ==
    /\ ~cache.crashed
    /\ gr[g].pc = "lock"
    /\ cache.mutex = 0
    /\ cache' = [cache EXCEPT !.mutex = g]
    /\ gr' = [gr EXCEPT ![g].pc = "body"]
    /\ UNCHANGED <<image, op, convVars, last>>

GetReturn(g) ==
    /\ ~cache.crashed
    /\ gr[g].pc = "body"
    /\ \E key \in Keys :
          \E r \in {Get(cache, key)} :
              /\ cache' = [r.c EXCEPT !.mutex = 0]
              /\ last' = [name |-> "Get", g |-> g, key |-> key, value |-> r.value,
                          ok |-> r.ok, before |-> cache.recentlyUsed]
    /\ gr' = [gr EXCEPT ![g] = IdleGoroutine]
    /\ UNCHANGED <<image, op, convVars>>

AddReturn(g) ==
    /\ ~cache.crashed
    /\ gr[g].pc = "body"
    /\ \E key \in Keys, value \in Values :
          \E c \in {Add(cache, key, value)} :
              /\ cache' = [c EXCEPT !.mutex = 0]
              /\ gr' = [gr EXCEPT ![g].pc = IF c.crashed THEN "panic" ELSE "idle"]
              /\ last' = [name |-> "Add", g |-> g, key |-> key, value |-> value,
                          ok |-> TRUE, before |-> cache.recentlyUsed]
    /\ UNCHANGED <<image, op, convVars>>

NextLRU ==
    \E g \in 1..MaxGoroutines :
        \/ Call(g)
        \/ Lock(g)
        \/ GetReturn(g)
        \/ AddReturn(g)

SpecLRU == InitLRU /\ [][NextLRU]_vars

(***************************************************************************)
(* Readers that share one image and its L2 cache.  A reader runs one       *)
(* ReadAt or Extent call cluster by cluster.  For the cluster it is at, it *)
(* asks the cache for the L2 table of the cluster's L1 entry (Get, under   *)
(* the cache's lock); on a miss it reads the table from the store and then *)
(* adds it to the cache (Add, under the lock).  Other readers run between  *)
(* these steps.  tables holds, per cluster, the table getL2Table returned  *)
(* to this reader; the call computes with these tables.  hit says that a   *)
(* table of the call came from the cache.                                  *)
(***************************************************************************)
maxL2Tables == 1
MaxReaders == 2

cacheKey_masked(l1Entry) == 0

\* The key of the L2 cache is the L1 entry.
cacheKey(l1Entry) == l1Entry

NoTables == [c \in {} |-> <<>>]

\* The image as a reader sees it: the L2 entry of each cluster comes from
\* the table the reader was given for that cluster.
View(img, tables) ==
    [img EXCEPT !.l2Store =
        [i \in DOMAIN img.l2Store |->
            [j \in DOMAIN img.l2Store[i] |->
                LET c == (i - 1) * img.l2Entries + (j - 1)
                IN  IF c \in DOMAIN tables /\ j <= Len(tables[c])
                    THEN tables[c][j]
                    ELSE img.l2Store[i][j]]]]

\* The result of a call on the image as the reader sees it.
CallResult(view, name, a, b) ==
    IF name = "ReadAt" THEN ReadAt(view, b, a, "full")
    ELSE Extent(view, a, b, "full")

\* Cluster k lies in the range of the call.
InRange(view, rd, k) ==
    IF rd.name = "ReadAt"
    THEN rd.b > 0 /\ k * view.clusterSize < rd.a + Min(rd.b, view.size - rd.a)
    ELSE rd.a + rd.b <= view.size /\ k * view.clusterSize < rd.a + rd.b

\* The length of the call up to cluster k, when the call has clusters before
\* k in its range; otherwise the length of the call.
LengthBefore(view, rd, k) ==
    IF InRange(view, rd, k) /\ k > rd.a \div view.clusterSize
    THEN k * view.clusterSize - rd.a
    ELSE rd.b

\* The loop of the call gets to cluster k: k lies in the range of the call
\* and the clusters before it did not end the loop; before is the result of
\* the call up to cluster k.
Reaches(view, rd, k, before) ==
    /\ InRange(view, rd, k)
    /\ k > rd.a \div view.clusterSize =>
          /\ before.err = "nil"
          /\ IF rd.name = "ReadAt" THEN before.n = k * view.clusterSize - rd.a
             ELSE before.ext.Length = k * view.clusterSize - rd.a

L1EntryOf(img, k) == img.l1Table[(k \div img.l2Entries) + 1]

IdleReader == [pc |-> "idle", name |-> "none", a |-> 0, b |-> 0, k |-> 0,
               tables |-> NoTables, t |-> <<>>, hit |-> FALSE]

InitReaders ==
    /\ image \in Qcow2Images(1, ParentKinds, {NoImage}, {MaxSize})
    /\ image.clusterBits = MinClusterBits
    /\ op = Idle
    /\ conv = NoConverter
    /\ wk = <<>>
    /\ dst = <<>>
    /\ progress = 0
    /\ returned = NotReturned
    /\ segs = <<>>
    /\ errlog = <<>>
    /\ wcount = <<>>
    /\ cache = New(maxL2Tables)
    /\ gr = [r \in 1..MaxReaders |-> IdleReader]
    /\ last = [name |-> "none"]

StartReadAt(r) ==
    /\ gr[r].pc = "idle"
    /\ \E off \in {0, image.clusterSize}, plen \in {1, image.size} :
          gr' = [gr EXCEPT ![r] = [IdleReader EXCEPT !.pc = "lookup", !.name = "ReadAt",
                                                     !.a = off, !.b = plen,
                                                     !.k = off \div image.clusterSize]]
    /\ UNCHANGED <<image, op, convVars, cache, last>>

StartExtent(r) ==
    /\ gr[r].pc = "idle"
    /\ \E start \in {0, image.clusterSize} :
       \E length \in {image.size - start} :
          gr' = [gr EXCEPT ![r] = [IdleReader EXCEPT !.pc = "lookup", !.name = "Extent",
                                                     !.a = start, !.b = length,
                                                     !.k = start \div image.clusterSize]]
    /\ UNCHANGED <<image, op, convVars, cache, last>>

\* The loop of the call at cluster k and its return.  In the loop, the call
\* is over when the loop does not get to k; otherwise getL2Table runs up to
\* the cache lookup, and an L1 entry without an L2 table is resolved without
\* the cache.  A call that is over returns its result.
Lookup(r) ==
    /\ gr[r].pc \in {"lookup", "return", "failed"}
    /\ \E view \in {View(image, gr[r].tables)}, rd \in {gr[r]} :
        \E b \in {IF rd.pc = "lookup" THEN LengthBefore(view, rd, rd.k) ELSE rd.b} :
        \E res \in {CallResult(view, rd.name, rd.a, b)} :
          IF rd.pc # "lookup"
          THEN /\ last' = [name |-> rd.name, a |-> rd.a, b |-> rd.b, res |-> res,
                            hit |-> rd.hit]
               /\ gr' = [gr EXCEPT ![r] = IdleReader]
               /\ UNCHANGED cache
          ELSE IF ~Reaches(view, rd, rd.k, res)
          THEN /\ gr' = [gr EXCEPT ![r].pc = "return"]
               /\ UNCHANGED <<cache, last>>
          ELSE LET e == L1EntryOf(image, rd.k)
               IN  IF l2Offset(e) = 0
                   THEN /\ gr' = [gr EXCEPT ![r].k = @ + 1]
                        /\ UNCHANGED <<cache, last>>
                   ELSE \E g \in {Get(cache, cacheKey(e))} :
                           /\ cache' = g.c
                           /\ gr' = IF g.ok
                                    THEN [gr EXCEPT ![r].tables = (rd.k :> g.value) @@ @,
                                                    ![r].k = @ + 1, ![r].hit = TRUE]
                                    ELSE [gr EXCEPT ![r].pc = "read"]
                           /\ UNCHANGED last
    /\ UNCHANGED <<image, op, convVars>>

\* The miss: readL2Table from the store.
ReadTable(r) ==
    /\ gr[r].pc = "read"
    /\ \E t \in {readL2Table(image, l2Offset(L1EntryOf(image, gr[r].k)), "full")} :
          gr' = IF t.err = "nil"
                THEN [gr EXCEPT ![r].pc = "add", ![r].t = t.table]
                ELSE [gr EXCEPT ![r].pc = "failed"]
    /\ UNCHANGED <<image, op, convVars, cache, last>>

AddTable(r) ==
    /\ gr[r].pc = "add"
    /\ cache' = Add(cache, cacheKey(L1EntryOf(image, gr[r].k)), gr[r].t)
    /\ gr' = [gr EXCEPT ![r].tables = (gr[r].k :> gr[r].t) @@ @,
                        ![r].k = @ + 1, ![r].t = <<>>, ![r].pc = "lookup"]
    /\ UNCHANGED <<image, op, convVars, last>>

NextReaders ==
    \E r \in 1..MaxReaders :
        \/ StartReadAt(r)
        \/ StartExtent(r)
        \/ Lookup(r)
        \/ ReadTable(r)
        \/ AddTable(r)

SpecReaders == InitReaders /\ [][NextReaders]_vars

(***************************************************************************)
(* Close.  The source of the image with tag g is an io.Closer when         *)
(* closable[g], and its Close returns closeErr[g].  The result of a Close  *)
(* is its error, the sources that were closed and the images whose Close   *)
(* ran, in order.                                                          *)
(***************************************************************************)
MaxChain == 3
NothingClosed == [err |-> "nil", sources |-> <<>>, images |-> <<>>]

\* Qcow2.Close, given what Close of the backing image did.
qcow2Close_stoponerror(img, b, closable, closeErr) ==
    LET ran == [b EXCEPT !.images = Append(@, img.tag)]
    IN  IF b.err = "nil" /\ closable[img.tag]
        THEN [ran EXCEPT !.sources = Append(@, img.tag), !.err = closeErr[img.tag]]
        ELSE ran

qcow2Close(img, b, closable, closeErr) ==
    LET ran == [b EXCEPT !.images = Append(@, img.tag)]
    IN  IF closable[img.tag]
        THEN [ran EXCEPT !.sources = Append(@, img.tag),
                         !.err = IF closeErr[img.tag] # "nil" THEN closeErr[img.tag] ELSE @]
        ELSE ran

rawClose(img, closable, closeErr) ==
    IF closable[img.tag]
    THEN [err |-> closeErr[img.tag], sources |-> <<img.tag>>, images |-> <<img.tag>>]
    ELSE [NothingClosed EXCEPT !.images = <<img.tag>>]

stubClose(img) == [NothingClosed EXCEPT !.images = <<0>>]

RECURSIVE ImageClose(_, _, _)
ImageClose(img, closable, closeErr) ==
    CASE img.type = "qcow2" ->
            qcow2Close(img,
                       IF img.backingImage.type # "none"
                       THEN ImageClose(img.backingImage, closable, closeErr)
                       ELSE NothingClosed,
                       closable, closeErr)
      [] img.type = "raw" -> rawClose(img, closable, closeErr)
      [] img.type = "stub" -> stubClose(img)

\* Chains of up to MaxChain images: qcow2 images, ending in no backing
\* image, a raw image or a stub.
RECURSIVE Chains(_)
Chains(tag) ==
    LET under == IF tag < MaxChain
                 THEN {MkRaw(tag + 1, 2), MkStub("vmdk")} \cup Chains(tag + 1)
                 ELSE {}
    IN  {MkQcow2(tag, MinClusterBits, 2, <<"U">>, b, "nil") : b \in under \cup {NoImage}}

CloseError(g) == <<"close 1", "close 2", "close 3", "close 4">>[g]

InitClose ==
    /\ image \in Chains(1)
    /\ \E closable \in [1..MaxChain -> BOOLEAN], failing \in SUBSET (1..MaxChain) :
          op = [name |-> "Close", done |-> FALSE, closable |-> closable,
                closeErr |-> [g \in 1..MaxChain |-> IF g \in failing THEN CloseError(g)
                                                     ELSE "nil"],
                res |-> NothingClosed]
    /\ conv = NoConverter
    /\ wk = <<>>
    /\ dst = <<>>
    /\ progress = 0
    /\ returned = NotReturned
    /\ segs = <<>>
    /\ errlog = <<>>
    /\ wcount = <<>>
    /\ NoLRU

CallClose ==
    /\ op.name = "Close" /\ ~op.done
    /\ op' = [op EXCEPT !.done = TRUE, !.res = ImageClose(image, op.closable, op.closeErr)]
    /\ UNCHANGED <<image, convVars, lruVars>>

NextClose == CallClose

SpecClose == InitClose /\ [][NextClose]_vars

(***************************************************************************)
(* The cluster resolver over arbitrary table entries: an image whose L1    *)
(* table holds the entry e1 at each of its nL1 indexes and whose L2 tables *)
(* hold the entry e2 at every index.  A table can be read at every host    *)
(* offset an L1 entry can name.                                            *)
(***************************************************************************)
MaxEntry == 255
MaxL1 == 2
L1Entries == {0, 1, 2, 3, 4, 8, 60, 64, 128, 132, 255}

MetaImage(clusterBits, nL1, e1, e2) ==
    LET clusterSize == Pow2(clusterBits)
        l2Entries == clusterSize \div L2EntrySize
        clusters == nL1 * l2Entries
    IN  [MkQcow2(1, clusterBits, clusters * clusterSize, [c \in 1..clusters |-> "U"],
                 NoImage, "nil")
            EXCEPT !.l1Table = [k \in 1..nL1 |-> e1],
                   !.l2Store = [k \in 1..15 |-> [j \in 1..l2Entries |-> e2]]]

InitMeta ==
    /\ \E clusterBits \in ClusterBitsSet, nL1 \in 1..MaxL1, e1 \in L1Entries, e2 \in 0..MaxEntry :
          image = MetaImage(clusterBits, nL1, e1, e2)
    /\ op = Idle
    /\ conv = NoConverter
    /\ wk = <<>>
    /\ dst = <<>>
    /\ progress = 0
    /\ returned = NotReturned
    /\ segs = <<>>
    /\ errlog = <<>>
    /\ wcount = <<>>
    /\ NoLRU

CallGetClusterMeta ==
    /\ op.name = "idle"
    /\ \E off \in 0..(image.size + image.clusterSize - 1) :
          op' = [name |-> "getClusterMeta", off |-> off,
                 res |-> getClusterMeta(image, off, "full")]
    /\ UNCHANGED <<image, convVars, lruVars>>

NextMeta == CallGetClusterMeta

SpecMeta == InitMeta /\ [][NextMeta]_vars

(***************************************************************************)
(* Images with malformed standard clusters: the kind "B" is an L2 entry    *)
(* whose descriptor is not 0 (a reserved bit is set) and whose host        *)
(* cluster offset is 0.                                                    *)
(***************************************************************************)
InitMalformed ==
    /\ image \in Qcow2Images(1, {"U", "S", "B"}, {NoImage}, 1..MaxSize)
    /\ op = Idle
    /\ conv = NoConverter
    /\ wk = <<>>
    /\ dst = <<>>
    /\ progress = 0
    /\ returned = NotReturned
    /\ segs = <<>>
    /\ errlog = <<>>
    /\ wcount = <<>>
    /\ NoLRU

NextMalformed == CallReadAt \/ Return

SpecMalformed == InitMalformed /\ [][NextMalformed]_vars

(***************************************************************************)
(* What an image means, from the format: the byte at virtual offset i.     *)
(* A cluster the image does not hold reads from the backing image, and as  *)
(* zeros where the backing image has ended.                                *)
(***************************************************************************)
RECURSIVE Content(_, _)
Content(img, i) ==
    CASE img.type = "none" -> 0
      [] img.type = "stub" -> 0
      [] img.type = "raw" -> IF i < img.size THEN RawByte(img, i) ELSE 0
      [] img.type = "qcow2" ->
           IF i >= img.size THEN 0
           ELSE LET c == i \div img.clusterSize
                    kind == img.kinds[c + 1]
                    j == i % img.clusterSize
                IN  CASE kind = "U" -> Content(img.backingImage, i)
                      [] kind = "Z" -> 0
                      [] kind \in {"S", "S0"} -> RaByte(img, img.hostOf[c + 1] + j)
                      [] kind = "C" -> CompByte(img, img.hostOf[c + 1], j)
                      [] kind = "B" -> 0

\* Every image of the chain is supported and holds only valid descriptors.
RECURSIVE Sound(_)
Sound(img) ==
    CASE img.type = "none" -> TRUE
      [] img.type = "raw" -> TRUE
      [] img.type = "stub" -> FALSE
      [] img.type = "qcow2" ->
           /\ img.errUnreadable = "nil"
           /\ \A c \in 1..Len(img.kinds) : img.kinds[c] # "B"
           /\ Sound(img.backingImage)

\* The (allocated, zero, compressed) status of the cluster holding offset i.
StatusAt(img, i) == clusterStatus(img, (i \div img.clusterSize) * img.clusterSize, "full").ext

\* The environments in which the store fails no read.
DecoderEnvs == {"full", "fullEOF", "short"}

(***************************************************************************)
(* C1.  Zero equivalence: for every successful Extent(start, length) whose *)
(* result has Zero set, ReadAt over exactly [Start, Start+Length) returns  *)
(* only zero bytes, whatever the backing image's type and cluster size.    *)
(***************************************************************************)
C1_ZeroEquivalence ==
    (op.name = "Extent" /\ op.env = "full" /\ op.res.err = "nil" /\ op.res.ext.Zero /\ op.res.ext.Length > 0)
        => LET r == ReadAt(image, op.res.ext.Length, op.res.ext.Start, "full")
           IN  \A k \in 1..r.n : r.data[k] = 0

(***************************************************************************)
(* C3.  For any start, aligned or not, and any length > 0 with             *)
(* start+length <= size, Extent returns an extent with Start = start and   *)
(* Start+Length <= start+length such that every cluster overlapped by      *)
(* [Start, Start+Length) has the status of the returned extent.            *)
(***************************************************************************)
C3_ExtentSameStatus ==
    (/\ op.name = "Extent" /\ op.env = "full" /\ Sound(image)
     /\ op.length > 0 /\ op.start + op.length <= image.size)
        => /\ op.res.err = "nil"
           /\ op.res.ext.Start = op.start
           /\ op.res.ext.Start + op.res.ext.Length <= op.start + op.length
           /\ \A i \in op.res.ext.Start..(op.res.ext.Start + op.res.ext.Length - 1) :
                 sameStatus(StatusAt(image, i), op.res.ext)

(***************************************************************************)
(* C4.  ReadAt clips the request to the virtual size: the returned count   *)
(* never exceeds max(0, size - off), whatever kind of cluster the end of   *)
(* the image falls in.                                                     *)
(***************************************************************************)
C4_ReadAtClipsToSize ==
    op.name = "ReadAt"
        => op.res.n <= (IF image.size - op.off > 0 THEN image.size - op.off ELSE 0)

(***************************************************************************)
(* C5.  For a readable image and a non-empty buffer, ReadAt returns an EOF *)
(* error if and only if off + len(p) >= size.                              *)
(***************************************************************************)
C5_EOFIffAtSize ==
    (op.name = "ReadAt" /\ op.env \in DecoderEnvs /\ Sound(image))
        => (IsEOF(op.res.err) <=> op.off + op.plen >= image.size)

(***************************************************************************)
(* C2.  Extent totality: on a readable image of virtual size S, the walk   *)
(* that starts at 0, calls Extent(start, S - start) and advances start by  *)
(* the returned Length succeeds at every call with Start = start and       *)
(* Length > 0 and ends with start = S: the extents partition [0, S).       *)
(***************************************************************************)
Partitions(extents, end) ==
    /\ \A k \in 1..Len(extents) :
          /\ extents[k].Length > 0
          /\ extents[k].Start = (IF k = 1 THEN 0 ELSE extents[k - 1].Start + extents[k - 1].Length)
    /\ end = (IF Len(extents) = 0 THEN 0
              ELSE extents[Len(extents)].Start + extents[Len(extents)].Length)

C2_ExtentTotality ==
    (op.name = "listExtents" /\ Sound(image) /\ op.err # "EIO")
        => /\ op.err = "nil"
           /\ op.start <= image.size
           /\ Partitions(op.extents, op.start)
           /\ op.done => op.start = image.size

\* A finished walk of several extents over an image with a backing image
\* whose size is not a multiple of the cluster size.
C2_Witness ==
    /\ op.name = "listExtents" /\ op.done /\ op.err = "nil" /\ Sound(image)
    /\ Len(op.extents) >= 2
    /\ image.backingImage.type = "qcow2"
    /\ image.size % image.clusterSize # 0

(***************************************************************************)
(* C6.  For a readable image, a buffer with off + len(p) <= size and a     *)
(* store and decoder that return no error, ReadAt fills the whole buffer   *)
(* with the bytes of the image in virtual-address order, also when the     *)
(* range spans clusters of different kinds and per-cluster reads come back *)
(* short.                                                                  *)
(***************************************************************************)
\* Offset i lies inside every image of the chain that is consulted for it.
RECURSIVE WithinChain(_, _)
WithinChain(img, i) ==
    CASE img.type = "none" -> TRUE
      [] img.type = "raw" -> i < img.size
      [] img.type = "stub" -> FALSE
      [] img.type = "qcow2" ->
           /\ i < img.size
           /\ (img.kinds[(i \div img.clusterSize) + 1] = "U" /\ img.backingImage.type # "none")
                 => WithinChain(img.backingImage, i)

C6_ReadAtFillsBuffer ==
    (/\ op.name = "ReadAt" /\ op.env \in {"full", "short"} /\ Sound(image)
     /\ op.off + op.plen <= image.size)
        => /\ op.res.n = op.plen
           /\ Len(op.res.data) = op.plen
           /\ \A k \in 1..op.plen :
                 WithinChain(image, op.off + k - 1)
                    => op.res.data[k] = Content(image, op.off + k - 1)

\* A read that starts inside a compressed cluster whose decoder delivers one
\* byte per call, and goes on into a cluster of another kind.
C6_Witness ==
    /\ op.name = "ReadAt" /\ op.env = "short" /\ Sound(image)
    /\ op.off + op.plen <= image.size
    /\ op.plen >= 3
    /\ op.off % image.clusterSize # 0
    /\ image.kinds[(op.off \div image.clusterSize) + 1] = "C"
    /\ image.kinds[((op.off + op.plen - 1) \div image.clusterSize) + 1] = "S"
    /\ op.res.n = op.plen

(***************************************************************************)
(* C7.  Backing composition: for every cluster not allocated in the child, *)
(* ReadAt of the child returns the parent's bytes at the same virtual      *)
(* offsets, zero-filled where the parent has ended, and the child returns  *)
(* no EOF for a range that lies inside the child.                          *)
(***************************************************************************)
Unallocated(img, i) == ~getClusterMeta(img, i, "full").Allocated

C7_BackingComposition ==
    (/\ op.name = "ReadAt" /\ op.env \in DecoderEnvs /\ Sound(image)
     /\ image.backingImage.type # "none"
     /\ op.off + op.plen < image.size
     /\ \A i \in op.off..(op.off + op.plen - 1) : Unallocated(image, i))
        => /\ op.res.err = "nil"
           /\ op.res.n = op.plen
           /\ \A k \in 1..op.res.n : op.res.data[k] = Content(image.backingImage, op.off + k - 1)

(***************************************************************************)
(* C8.  After Convert returns nil on a destination that was all zeros,     *)
(* every byte i in [0, size) of the destination equals the byte ReadAt of  *)
(* the image returns at i.                                                 *)
(***************************************************************************)
C8_ConvertMatchesReadAt ==
    (returned.done /\ returned.err = NilErr)
        => \A i \in 0..(conv.size - 1) :
              \E r \in {ImageReadAt(image, 1, i, "full")} :
                  r.n = 1 /\ dst[i + 1] = r.data[1]

\* No destination byte is written twice and every worker stays inside the
\* segment it was handed.
WorkersDisjoint ==
    /\ \A i \in 1..Len(wcount) : wcount[i] <= 1
    /\ \A w \in DOMAIN wk :
          /\ wk[w].start <= wk[w].end
          /\ wk[w].pc = "read" => wk[w].start + wk[w].extent.Length <= wk[w].end

(***************************************************************************)
(* C9.  The segments handed out by nextSegment are pairwise disjoint, each *)
(* is [s, min(s + segmentSize, size)), and when Convert returns no error   *)
(* their union is [0, size); no destination byte is written twice and      *)
(* every worker stays inside the segment it was handed.                    *)
(***************************************************************************)
SegmentsDisjoint ==
    /\ \A k \in 1..Len(segs) :
          /\ segs[k].start < segs[k].end
          /\ segs[k].end = Min(segs[k].start + conv.segmentSize, conv.size)
    /\ \A j, k \in 1..Len(segs) :
          j # k => (segs[j].end <= segs[k].start \/ segs[k].end <= segs[j].start)

SegmentsCover ==
    \A i \in 0..(conv.size - 1) :
        \E k \in 1..Len(segs) : segs[k].start <= i /\ i < segs[k].end

C9_SegmentsPartition ==
    /\ SegmentsDisjoint
    /\ WorkersDisjoint
    /\ (returned.done /\ returned.err = NilErr) => SegmentsCover

C9_Witness ==
    /\ Len(segs) >= 2
    /\ \E v, w \in DOMAIN wk : v # w /\ wk[v].pc = "read" /\ wk[w].pc = "read"
    /\ \E k \in 1..Len(segs) : segs[k].end - segs[k].start < conv.segmentSize
    /\ \E i \in 1..Len(wcount) : wcount[i] = 1

(***************************************************************************)
(* C10.  First error wins: the stored error is the first one passed to     *)
(* setError and is never overwritten; once it is stored no nextSegment     *)
(* call hands out a segment, and Convert returns exactly that error, only  *)
(* after all workers have returned.                                        *)
(***************************************************************************)
FirstErrorStored ==
    /\ conv.err = (IF errlog = <<>> THEN NilErr ELSE errlog[1])
    /\ returned.done => /\ \A w \in DOMAIN wk : wk[w].pc = "done"
                        /\ returned.err = conv.err

ErrorSticks ==
    conv.err # NilErr
        => /\ conv'.err = conv.err
           /\ segs' = segs
           /\ \A w \in DOMAIN wk : wk[w].pc = "next" /\ wk'[w] # wk[w] => wk'[w].pc = "done"

C10_FirstErrorWins == []FirstErrorStored /\ [][ErrorSticks]_vars

C10_Witness ==
    /\ returned.done
    /\ Len(errlog) >= 2
    /\ errlog[1] # errlog[2]
    /\ returned.err = errlog[1]

(***************************************************************************)
(* C11.  A source read of a non-empty buffer that returns no byte and no   *)
(* error is reported as an unexpected EOF: the worker that got it is about *)
(* to record that error and stops.                                         *)
(***************************************************************************)
C11_ZeroReadReported ==
    \A w \in DOMAIN wk :
        wk[w].zeroRead => wk[w].pc = "seterr" /\ wk[w].err.msg = "unexpected EOF"

(***************************************************************************)
(* C12.  When Convert returns nil, the sum of all n passed to Update       *)
(* equals size.                                                            *)
(***************************************************************************)
C12_ProgressTotal ==
    (returned.done /\ returned.err = NilErr) => progress = conv.size

C12_Witness ==
    /\ returned.done /\ returned.err = NilErr
    /\ progress = conv.size
    /\ \E i \in 1..Len(wcount) : wcount[i] = 1
    /\ \E i \in 1..Len(wcount) : wcount[i] = 0
    /\ Len(segs) >= 2

TupleOf(img, off) == clusterStatus(img, off, "full").ext

SameTuple(a, b) == a.Allocated = b.Allocated /\ a.Zero = b.Zero /\ a.Compressed = b.Compressed

C14_ExtentMerges ==
    (op.name = "listExtents" /\ Sound(image) /\ op.err = "nil")
        => /\ \A k \in 1..(Len(op.extents) - 1) : ~SameTuple(op.extents[k], op.extents[k + 1])
           /\ \A k \in 1..Len(op.extents) :
                 LET e == op.extents[k]
                     end == e.Start + e.Length
                 IN  /\ \A i \in e.Start..(end - 1) :
                           SameTuple(TupleOf(image, (i \div image.clusterSize) * image.clusterSize), e)
                     /\ end < image.size => /\ end % image.clusterSize = 0
                                            /\ ~SameTuple(TupleOf(image, end), e)

\* A finished walk that merged a compressed cluster with the one after it.
C14_Witness ==
    /\ op.name = "listExtents" /\ op.done /\ op.err = "nil" /\ Sound(image)
    /\ Len(op.extents) = 1
    /\ op.extents[1].Compressed
    /\ op.extents[1].Length > image.clusterSize

(***************************************************************************)
(* What a file holds, from its description.  Parsed: the file holds every   *)
(* header block its version and header length call for, behind the qcow2    *)
(* magic.  HeaderFault: the parsed header fails one of the readability      *)
(* conditions.  BackingFault: the header is readable, the L1 table loads,   *)
(* and loading the backing file fails at some step.                         *)
(***************************************************************************)
BlocksNeeded(file) == IF file.Version = 2 THEN 1 ELSE IF file.longHeader THEN 3 ELSE 2
Parsed(file) == file.Magic = Magic /\ file.Version >= 2 /\ file.avail >= BlocksNeeded(file)
HeaderFault(file, registry) ==
    \/ file.ClusterBits < MinClusterBits
    \/ file.CryptMethod # CryptMethodNone
    \/ file.Version >= 3 /\ ~(file.IncompatibleFeatures \subseteq {0, 1, 3, 4})
    \/ file.Version >= 3 /\ file.longHeader /\ file.CompressionType \notin registry
NotOfFormat(target, format) ==
    CASE format = "qcow2" -> ~Parsed(target)
      [] format \in StubTypes -> target.probe # format
      [] format \in {"", "raw"} -> FALSE
      [] OTHER -> TRUE
BackingFault(file, registry) ==
    /\ ~HeaderFault(file, registry) /\ file.l1ok
    /\ file.backing.fail # "absent"
    /\ file.backing.fail = "none" =>
          \/ NotOfFormat(file.backing.target, file.backing.format)
          \/ OpenWithType(file.backing.target, file.backing.format, registry, 2).err # "nil"

(***************************************************************************)
(* C15: when opening finds a readability error (unsupported encryption,     *)
(* feature or compression, malformed cluster bits, a backing file that      *)
(* fails to load), Open returns the image with a nil error, Readable        *)
(* returns the cached error, and every later ReadAt returns that error      *)
(* with n = 0 and every later Extent returns it with the zero extent,       *)
(* whatever the store would have answered.                                  *)
(***************************************************************************)
ReadabilityError(file, registry) ==
    Parsed(file) /\ (HeaderFault(file, registry) \/ BackingFault(file, registry))

C15_ReadabilityErrorCached ==
    (op.name = "Open" /\ op.via = "qcow2.Open" /\ ReadabilityError(op.file, op.registry))
        => /\ op.pc = "returned" /\ op.err = "nil"
           /\ image.type = "qcow2" /\ image.errUnreadable # "nil"
           /\ op.call.name = "Readable" => op.call.res = image.errUnreadable
           /\ op.call.name = "ReadAt" =>
                 op.call.res.n = 0 /\ op.call.res.err = image.errUnreadable
           /\ op.call.name = "Extent" =>
                 op.call.res.ext = ZeroExtent /\ op.call.res.err = image.errUnreadable

(***************************************************************************)
(* C16: Header.Readable is a function of the parsed header alone.  It       *)
(* returns nil exactly when the magic is the qcow2 magic, the version is    *)
(* at least 2, the cluster bits are at least the minimum, the crypt method  *)
(* is none, every set incompatible-feature bit is one of dirty, corrupt,    *)
(* compression-type and extended-L2, and the compression type has a         *)
(* registered decompressor.  Taking the conditions in that order, the       *)
(* first one that fails decides the error: a non-zero crypt method gives    *)
(* the unsupported-encryption kind, the external-data-file bit and every    *)
(* bit from 5 up give the unsupported-feature kind, and a compression type  *)
(* without a decompressor gives the unsupported-compression kind.  A        *)
(* header without the version 3 block has no feature bits, and one without  *)
(* the additional block has the zlib compression type.                      *)
(***************************************************************************)
FeaturesOf(h) == IF h.hasV3 THEN h.IncompatibleFeatures ELSE {}
CompressionOf(h) == IF h.hasAdditional THEN h.CompressionType ELSE CompressionTypeZlib
WellFormed(h) == h.Magic = Magic /\ h.Version >= 2 /\ h.ClusterBits >= MinClusterBits
FeaturesSupported(h) == FeaturesOf(h) \subseteq {0, 1, 3, 4}

ShortHeader(file) ==
    \/ file.avail < 1
    \/ file.Magic = Magic /\ file.Version >= 3 /\ file.avail < BlocksNeeded(file)

C17_ShortReadIsWrongType ==
    (op.name = "Open" /\ op.pc # "start" /\ ShortHeader(op.file))
        => /\ op.via = "qcow2.Open" => IsWrongType(op.err)
           /\ op.via = "Open" => op.err = "nil" /\ image.type \in {"stub", "raw"}

(***************************************************************************)
(* C18: when the backing file cannot be opened in its declared format (the  *)
(* format name is unknown, or the file is not of that format), Open of the  *)
(* referring image returns, its Readable reports the unsupported-backing-   *)
(* file kind, and Open does not crash.                                      *)
(***************************************************************************)
BackingFormatFailure(file, registry) ==
    /\ Parsed(file) /\ ~HeaderFault(file, registry) /\ file.l1ok
    /\ file.backing.fail = "none"
    /\ NotOfFormat(file.backing.target, file.backing.format)

C18_BackingOpenFailure ==
    (op.name = "Open" /\ op.via = "qcow2.Open" /\ BackingFormatFailure(op.file, op.registry))
        => /\ ~op.panic /\ op.pc = "returned" /\ op.err = "nil"
           /\ image.type = "qcow2"
           /\ Sentinel(image.errUnreadable) = "ErrUnsupportedBackingFile"

(***************************************************************************)
(* C19: LRU order.  Get of a present key and Add of any key leave that key  *)
(* first in the recency order.  Add of a new key to a full cache removes    *)
(* exactly the entry that was last in the recency order; all other entries  *)
(* keep their values and their order.  Add of a present key replaces its    *)
(* value and removes nothing.  Get of an absent key changes nothing.        *)
(***************************************************************************)
KeysOf(l) == {l[i].Key : i \in 1..Len(l)}
Without(l, key) == SelectSeq(l, LAMBDA e : e.Key # key)
ValueIn(l, key) == l[CHOOSE i \in 1..Len(l) : l[i].Key = key].Value

C19_LRUOrder ==
    (last.name # "none" /\ ~cache.crashed)
        => LET before == last.before
               after == cache.recentlyUsed
               present == last.key \in KeysOf(before)
               full == Len(before) >= cache.capacity
           IN  /\ (last.name = "Get" /\ present)
                     => /\ last.ok /\ last.value = ValueIn(before, last.key)
                        /\ after = <<[Key |-> last.key, Value |-> last.value]>>
                                       \o Without(before, last.key)
               /\ (last.name = "Get" /\ ~present)
                     => ~last.ok /\ after = before
               /\ (last.name = "Add" /\ present)
                     => after = <<[Key |-> last.key, Value |-> last.value]>>
                                    \o Without(before, last.key)
               /\ (last.name = "Add" /\ ~present /\ ~full)
                     => after = <<[Key |-> last.key, Value |-> last.value]>> \o before
               /\ (last.name = "Add" /\ ~present /\ full /\ before # <<>>)
                     => after = <<[Key |-> last.key, Value |-> last.value]>>
                                    \o SubSeq(before, 1, Len(before) - 1)

C19_Witness ==
    /\ last.name = "Add" /\ ~cache.crashed
    /\ Len(last.before) = cache.capacity /\ cache.capacity >= 2
    /\ last.key \notin KeysOf(last.before)
    /\ cache.recentlyUsed[1].Key = last.key
    /\ KeysOf(cache.recentlyUsed) = (KeysOf(last.before) \cup {last.key})
                                        \ {last.before[Len(last.before)].Key}

(***************************************************************************)
(* C20: for every capacity c >= 0 and every interleaving of Get and Add     *)
(* calls of several goroutines, no call crashes, the lock is held only by   *)
(* a call that is running its body, the cache holds at most c entries, and  *)
(* the keys of the map are the keys of the recency list, each once.         *)
(***************************************************************************)
C20_CacheInvariant ==
    gr # <<>> =>
        /\ ~cache.crashed
        /\ \A g \in DOMAIN gr : gr[g].pc # "panic"
        /\ cache.mutex # 0 => gr[cache.mutex].pc = "body"
        /\ \A g \in DOMAIN gr : gr[g].pc = "body" => cache.mutex = g
        /\ Len(cache.recentlyUsed) <= cache.capacity
        /\ DOMAIN cache.entries = KeysOf(cache.recentlyUsed)
        /\ Cardinality(KeysOf(cache.recentlyUsed)) = Len(cache.recentlyUsed)

(***************************************************************************)
(* C21: with readers that share the image and its L2 cache, every ReadAt    *)
(* and every Extent returns the result the call has on the image alone,     *)
(* whatever the cache holds and however the readers interleave, so two      *)
(* calls with the same arguments return the same result; and every table    *)
(* in the cache is the table the store holds for its L1 entry.              *)
(***************************************************************************)
C21_CacheTransparent ==
    /\ last.name \in {"ReadAt", "Extent"} =>
          last.res = IF last.name = "ReadAt" THEN ReadAt(image, last.b, last.a, "full")
                     ELSE Extent(image, last.a, last.b, "full")
    /\ image.type = "qcow2" =>
          \A i \in 1..Len(cache.recentlyUsed) :
              LET entry == cache.recentlyUsed[i]
              IN  entry.Value = readL2Table(image, l2Offset(entry.Key), "full").table

C21_Witness ==
    /\ last.name \in {"ReadAt", "Extent"} /\ last.hit
    /\ last.res.err \in {"nil", "EOF"}
    /\ \E r1, r2 \in DOMAIN gr :
          /\ r1 # r2
          /\ gr[r1].pc = "add" /\ gr[r2].pc = "add" /\ gr[r1].k = gr[r2].k

(***************************************************************************)
(* C22: Close of a qcow2 image runs Close of every image of its backing     *)
(* chain once, and closes once the source of every qcow2 and raw image of   *)
(* the chain whose source can be closed, also when closing a backing image  *)
(* failed; it returns the close error of the image's own source if there    *)
(* is one, and otherwise what Close of the backing image returned.          *)
(***************************************************************************)
RECURSIVE ChainOf(_)
ChainOf(img) ==
    CASE img.type = "qcow2" -> <<img>> \o ChainOf(img.backingImage)
      [] img.type = "none" -> <<>>
      [] OTHER -> <<img>>

TagOf(img) == IF img.type = "stub" THEN 0 ELSE img.tag
Count(seq, x) == Cardinality({i \in 1..Len(seq) : seq[i] = x})

RECURSIVE CloseErrorOf(_, _, _)
CloseErrorOf(img, closable, closeErr) ==
    CASE img.type \in {"none", "stub"} -> "nil"
      [] img.type = "raw" -> IF closable[img.tag] THEN closeErr[img.tag] ELSE "nil"
      [] img.type = "qcow2" ->
            IF closable[img.tag] /\ closeErr[img.tag] # "nil" THEN closeErr[img.tag]
            ELSE CloseErrorOf(img.backingImage, closable, closeErr)

Bit(x, i) == (x \div Pow2(i)) % 2

KindAt(img, i) == img.kinds[(i \div img.clusterSize) + 1]

C24_HostOffsetZeroRejected ==
    (op.name = "ReadAt" /\ op.env = "full" /\ op.off < image.size
        /\ KindAt(image, op.off) = "B")
        => /\ op.res.err \notin {"nil", "EOF"}
           /\ op.res.n = 0

(***************************************************************************)
(* The status of single clusters: clusterStatus on every cluster of an     *)
(* image, and the extent list of the whole image as the tests walk it.     *)
(***************************************************************************)
InitStatus ==
    /\ image \in Qcow2Images(1, {"U", "S"}, Parents, 1..MaxSize)
    /\ op = Idle
    /\ conv = NoConverter
    /\ wk = <<>>
    /\ dst = <<>>
    /\ progress = 0
    /\ returned = NotReturned
    /\ segs = <<>>
    /\ errlog = <<>>
    /\ wcount = <<>>
    /\ NoLRU

\* img.clusterStatus(off), off a multiple of the cluster size as in Extent.
CallClusterStatus ==
    /\ op.name = "idle"
    /\ \E i \in 0..(NumClusters(image.size, image.clusterSize) - 1), env \in {"full", "ioerr"} :
          op' = [name |-> "clusterStatus", off |-> i * image.clusterSize, env |-> env,
                 res |-> clusterStatus(image, i * image.clusterSize, env)]
    /\ UNCHANGED <<image, convVars, lruVars>>

StatusReturn ==
    /\ op.name = "clusterStatus" \/ (op.name = "listExtents" /\ op.done)
    /\ op' = Idle
    /\ UNCHANGED <<image, convVars, lruVars>>

NextStatus == CallClusterStatus \/ ListExtentsStart \/ ListExtentsStep \/ StatusReturn

SpecStatus == InitStatus /\ [][NextStatus]_vars

\* The extents of a child without data of its own over a raw backing image
\* of bsize bytes: the clusters the backing image reaches into, then zeros.
BackedExtents(size, clusterSize, bsize) ==
    LET covered == Min(size, ((bsize + clusterSize - 1) \div clusterSize) * clusterSize)
    IN  <<[ZeroExtent EXCEPT !.Start = 0, !.Length = covered, !.Allocated = TRUE]>>
            \o (IF covered < size
                THEN <<[ZeroExtent EXCEPT !.Start = covered, !.Length = size - covered,
                                          !.Zero = TRUE]>>
                ELSE <<>>)

NoOwnData(img) == \A i \in 1..Len(img.kinds) : img.kinds[i] = "U"

\* C25: a cluster that the child does not allocate is {zero, not allocated}
\* when there is no backing image or the cluster starts at or after the end of
\* the backing image; otherwise its status is the one the backing image's
\* Extent reports for the part of the cluster inside the backing image, with
\* Start = off and Length = cluster size.  For a child without own data over a
\* shorter raw backing image the extent list is the clusters the backing image
\* reaches into as allocated, followed by zeros.
C25_UnallocatedStatus ==
    /\ (op.name = "clusterStatus" /\ op.env = "full" /\ Unallocated(image, op.off))
          => LET b == image.backingImage
                 cs == image.clusterSize
             IN  IF b.type = "none" \/ op.off >= ImageSize(b)
                 THEN op.res = [ext |-> [ZeroExtent EXCEPT !.Start = op.off, !.Length = cs,
                                                            !.Zero = TRUE],
                                err |-> "nil"]
                 ELSE LET p == ImageExtent(b, op.off, Min(op.off + cs, ImageSize(b)) - op.off,
                                           "full")
                      IN  IF p.err # "nil" THEN op.res.err = p.err
                          ELSE op.res = [ext |-> [p.ext EXCEPT !.Start = op.off, !.Length = cs],
                                         err |-> "nil"]
    /\ (op.name = "listExtents" /\ op.done /\ op.err = "nil" /\ NoOwnData(image)
            /\ image.backingImage.type = "raw")
          => op.extents = BackedExtents(image.size, image.clusterSize,
                                        ImageSize(image.backingImage))

\* A child without own data whose raw backing image ends inside a cluster:
\* the walk ends with the backed clusters followed by a zero extent.
C25_Witness ==
    /\ op.name = "listExtents" /\ op.done /\ op.err = "nil"
    /\ NoOwnData(image)
    /\ image.backingImage.type = "raw"
    /\ ImageSize(image.backingImage) % image.clusterSize # 0
    /\ Len(op.extents) = 2
    /\ op.extents[1].Allocated /\ op.extents[2].Zero

(***************************************************************************)
(* The cluster size of an opened image, over every value of the header's   *)
(* cluster_bits field.                                                     *)
(***************************************************************************)
ClusterBitsFiles ==
    {[GoodFile EXCEPT !.ClusterBits = cb, !.Version = v, !.CryptMethod = cm, !.l1ok = l] :
        cb \in 0..MaxClusterBits, v \in 2..3, cm \in {CryptMethodNone, 1}, l \in BOOLEAN}

InitClusterSize ==
    /\ image = NoImage
    /\ op \in [name : {"Open"}, file : ClusterBitsFiles, registry : Registries, pc : {"start"},
               via : {"none"}, err : {"nil"}, panic : {FALSE}, call : {NoCall}]
    /\ conv = NoConverter
    /\ wk = <<>>
    /\ dst = <<>>
    /\ progress = 0
    /\ returned = NotReturned
    /\ segs = <<>>
    /\ errlog = <<>>
    /\ wcount = <<>>
    /\ NoLRU

\* ReadAt of one byte at offset 0 on the opened image; the calls on an image
\* with a negative cluster size are not followed.
SizedReadAt ==
    /\ op.name = "Open" /\ op.pc = "returned" /\ image.type = "qcow2"
    /\ op.call = NoCall
    /\ image.clusterSize >= 0
    /\ \E r \in {ReadAt(image, 1, 0, "full")} :
          op' = [op EXCEPT !.call = [name |-> "ReadAt", plen |-> 1, off |-> 0,
                                     env |-> "full", res |-> r]]
    /\ UNCHANGED <<image, convVars, lruVars>>

\* Extent of the first byte of the opened image.
SizedExtent ==
    /\ op.name = "Open" /\ op.pc = "returned" /\ image.type = "qcow2"
    /\ op.call = NoCall
    /\ image.clusterSize >= 0
    /\ \E r \in {Extent(image, 0, 1, "full")} :
          op' = [op EXCEPT !.call = [name |-> "Extent", start |-> 0, length |-> 1,
                                     env |-> "full", res |-> r]]
    /\ UNCHANGED <<image, convVars, lruVars>>

NextClusterSize ==
    \/ CallQcow2Open
    \/ OpenedReadable
    \/ SizedReadAt
    \/ SizedExtent
    \/ OpenedReturn

SpecClusterSize == InitClusterSize /\ [][NextClusterSize]_vars

\* C26: the cluster size of every opened image whose Readable() is nil is a
\* power of two and at least the smallest cluster size (512 in the program),
\* whatever value the cluster_bits field of the header carries.
C26_ClusterSizePowerOfTwo ==
    (op.name = "Open" /\ op.pc = "returned" /\ op.err = "nil" /\ image.type = "qcow2"
        /\ image.errUnreadable = "nil")
        => /\ image.clusterSize >= Pow2(MinClusterBits)
           /\ \E n \in 0..IntBits : image.clusterSize = Pow2(n)

\* C27: once the first error of a Convert run has been recorded, a worker
\* that copies a buffer (the one it was about to handle) stops after it: it
\* does not go on with another buffer or another extent of its segment.
C27_AbortAfterFirstError ==
    [][\A w \in DOMAIN wk :
          (conv.err # NilErr /\ wk[w].pc = "read" /\ wk'[w] # wk[w])
              => wk'[w].pc \notin {"read", "extent"}]_vars

(***************************************************************************)
(* Convert under fair scheduling: a worker goroutine that can take a step  *)
(* eventually takes one, and Convert returns once wg.Wait() is released.   *)
(***************************************************************************)
WorkerStep(w) ==
    /\ w \in DOMAIN wk
    /\ (NextSegment(w) \/ GetExtent(w) \/ CopyBuffer(w) \/ SetError(w))

\* The sources of every size from 0 on.
SourceImages ==
    UNION {{MkSource(b, m) : b \in [1..n -> {"H", "0", "1"}], m \in 1..MaxSegment} :
           n \in 0..(MaxSize - 1)}

InitConvertFair ==
    /\ image \in SourceImages
    /\ op = Idle
    /\ \E o \in ValidOptions :
          /\ conv = NewConverter(o, srcSize(image))
          /\ wk = [w \in 1..o.Workers |-> NewWorker]
    /\ dst = Zeros(srcSize(image))
    /\ wcount = Zeros(srcSize(image))
    /\ progress = 0
    /\ returned = NotReturned
    /\ segs = <<>>
    /\ errlog = <<>>
    /\ NoLRU

SpecConvertFair ==
    /\ InitConvertFair
    /\ [][NextConvert]_vars
    /\ \A w \in 1..MaxWorkers : WF_vars(WorkerStep(w))
    /\ WF_vars(ConvertReturn)

\* One iteration of a worker's loops: it advances start, ends with an error,
\* or has found a data extent that is not empty.
Advances(w) ==
    \/ wk'[w].start > wk[w].start
    \/ wk'[w].pc = "seterr"
    \/ wk[w].pc = "extent" /\ wk'[w].pc = "read" /\ wk'[w].extent.Length > 0

\* C28: Convert always terminates: every worker eventually returns and
\* Convert returns, and every loop iteration inside a segment strictly
\* advances start or ends with an error.
C28_ConvertTerminates ==
    /\ <>(returned.done /\ \A w \in DOMAIN wk : wk[w].pc = "done")
    /\ [][\A w \in DOMAIN wk :
              (wk[w].pc \in {"extent", "read"} /\ wk'[w] # wk[w]) => Advances(w)]_vars

\* Convert has returned without an error after its workers handled several
\* segments, one of them in more than one buffer.
C28_Witness ==
    /\ returned.done /\ returned.err = NilErr
    /\ \A w \in DOMAIN wk : wk[w].pc = "done"
    /\ Len(segs) >= 2
    /\ conv.bufferSize < conv.segmentSize
    /\ \E i \in 1..Len(wcount) : wcount[i] > 0

\* Readable() of an image of any type.
ImageReadable(img) ==
    CASE img.type = "qcow2" -> img.errUnreadable
      [] img.type = "stub" -> StubReadable(img)
      [] OTHER -> "nil"

RECURSIVE ChainReadable(_)
\* Every image from img down the backing chain is readable.
ChainReadable(img) ==
    \/ img.type = "none"
    \/ /\ ImageReadable(img) = "nil"
       /\ img.type = "qcow2" => ChainReadable(img.backingImage)

\* C29: Readable() of an opened image answers for its whole backing chain:
\* when it is nil, every image of the chain is readable, so no ReadAt or
\* Extent fails with an unsupported-format or unsupported-feature error
\* coming from a parent.
C29_ReadableCoversChain ==
    (op.name = "Open" /\ op.pc = "returned" /\ op.err = "nil" /\ image.type = "qcow2"
        /\ ImageReadable(image) = "nil")
        => ChainReadable(image)

(***************************************************************************)
(* Header extensions.  The stream after the header is a sequence of cells  *)
(* (a cell is one 32-bit word): a record is its type, its length and its   *)
(* payload, padded to a multiple of ExtAlign cells (8 bytes in the         *)
(* program); the list ends with a record of type End.  A record longer     *)
(* than MaxExtLength (4096 bytes in the program) is too long.  Of the      *)
(* types with a decoder the model has the backing file format name (a      *)
(* string), the bitmaps extension (not decoded) and the unknown types.     *)
(***************************************************************************)
MaxExtLength == 2
ExtAlign == 2
MaxExtensions == 4
MaxRecords == 2

HeaderExtensionTypeEnd == 0
HeaderExtensionTypeBackingFileFormatNameString == 1
HeaderExtensionTypeBitmapsExtension == 2

\* align.Up(n, ExtAlign)
Up(n, a) == ((n + a - 1) \div a) * a

\* ext.Data that was never set.
NoData == [kind |-> "nil"]

\* The switch on ext.Type, for a record that is not the end marker.
decodeData(type, data) ==
    CASE type = HeaderExtensionTypeBackingFileFormatNameString -> [kind |-> "string", v |-> data]
      [] type = HeaderExtensionTypeBitmapsExtension -> NoData
      [] OTHER -> [kind |-> "bytes", v |-> data]

\* One iteration of the loop of readHeaderExtensions: the reader is at cell
\* pos (from 1) of stream and res holds the extensions read so far.
readExtension(stream, pos, res) ==
    LET avail == Len(stream) - pos + 1
        stop(err) == [pos |-> pos, res |-> res, err |-> err, done |-> TRUE]
        more(ext, next) ==
            IF Len(res) + 1 > MaxExtensions
            THEN [pos |-> next, res |-> Append(res, ext), err |-> "too many header extensions",
                  done |-> TRUE]
            ELSE [pos |-> next, res |-> Append(res, ext), err |-> "nil", done |-> FALSE]
    IN  IF avail < 1 THEN stop("EOF")
        ELSE IF avail < 2 THEN stop("EOF")
        ELSE
          LET type == stream[pos]
              length == stream[pos + 1]
              bufLen == Up(length, ExtAlign)
          IN  IF length > MaxExtLength
              THEN more([Type |-> type, Length |-> length, Data |-> NoData], pos + 2)
              ELSE IF bufLen > 0 /\ avail - 2 < bufLen THEN stop("EOF")
              ELSE IF type = HeaderExtensionTypeEnd THEN stop("nil")
              ELSE more([Type |-> type, Length |-> length,
                         Data |-> decodeData(type, SubSeq(stream, pos + 2, pos + 1 + length))],
                        pos + 2 + bufLen)

\* A record as the image's writer laid it out: the payload and zero padding.
ExtRecords ==
    UNION {[Type : 1..3, Length : {n}, payload : [1..n -> {0, 3}]] : n \in 0..(MaxExtLength + 1)}

RECURSIVE Flatten(_)
Flatten(ss) == IF ss = <<>> THEN <<>> ELSE Head(ss) \o Flatten(Tail(ss))

EncodeRecord(rec) ==
    <<rec.Type, rec.Length>> \o rec.payload
        \o [i \in 1..(Up(rec.Length, ExtAlign) - rec.Length) |-> 0]

\* The records followed by the end marker; a file that ends before the end
\* marker lacks it.
EncodeRecords(recs) ==
    Flatten([i \in 1..Len(recs) |-> EncodeRecord(recs[i])]) \o <<HeaderExtensionTypeEnd, 0>>

InitExtensions ==
    /\ image = NoImage
    /\ \E n \in 0..MaxRecords : \E recs \in [1..n -> ExtRecords], ended \in BOOLEAN :
          op = [name |-> "readHeaderExtensions", records |-> recs, ended |-> ended,
                stream |-> IF ended THEN EncodeRecords(recs)
                           ELSE SubSeq(EncodeRecords(recs), 1, Len(EncodeRecords(recs)) - 2),
                pos |-> 1, res |-> <<>>, err |-> "nil", done |-> FALSE]
    /\ conv = NoConverter
    /\ wk = <<>>
    /\ dst = <<>>
    /\ progress = 0
    /\ returned = NotReturned
    /\ segs = <<>>
    /\ errlog = <<>>
    /\ wcount = <<>>
    /\ NoLRU

ReadExtension ==
    /\ op.name = "readHeaderExtensions"
    /\ ~op.done
    /\ \E r \in {readExtension(op.stream, op.pos, op.res)} :
          op' = [op EXCEPT !.pos = r.pos, !.res = r.res, !.err = r.err, !.done = r.done]
    /\ UNCHANGED <<image, convVars, lruVars>>

NextExtensions == ReadExtension

SpecExtensions == InitExtensions /\ [][NextExtensions]_vars

\* What the records are parsed to when a record that is too long is skipped
\* with its padded payload and every other record is decoded.
SkippedTooLong(recs) ==
    [i \in 1..Len(recs) |->
        [Type |-> recs[i].Type, Length |-> recs[i].Length,
         Data |-> IF recs[i].Length > MaxExtLength THEN NoData
                  ELSE decodeData(recs[i].Type, recs[i].payload)]]

\* C30: a record whose declared length is too long is skipped: its payload
\* is not decoded, the parser continues after its padded payload, and the
\* records after it, the end marker included, are parsed as they would be
\* without it.
C30_TooLongSkipped ==
    (op.name = "readHeaderExtensions" /\ op.done /\ op.ended
        /\ \E i \in 1..Len(op.records) : op.records[i].Length > MaxExtLength)
        => /\ op.err = "nil"
           /\ op.res = SkippedTooLong(op.records)

====
